---------------------------- MODULE Spec2Model ----------------------------
(***************************************************************************)
(* A model of megatech-vulkan-dispatch-tools: the dependency-expression    *)
(* engine of VulkanFeature.py (Tokenizer, _check_dependencies,             *)
(* _to_header_guard), the construction of a VulkanSpecification (which     *)
(* features are enabled) and DispatchTableGenerator.run (additions from    *)
(* core versions, additions from extensions, removals, rendering).         *)
(*                                                                         *)
(* Text is a sequence of symbols.  "(", ")", "," and "+" are the four      *)
(* characters the Tokenizer tells apart; every other symbol stands for a   *)
(* run of ordinary characters (a name such as VK_VERSION_1_1 is the one    *)
(* symbol "V11"), which the Tokenizer steps over one by one without        *)
(* looking at them.  Indices are 0-based as in Python.                     *)
(***************************************************************************)
EXTENDS Integers, Sequences, FiniteSets, TLC

(***************************************************************************)
(* Bounds.                                                                 *)
(***************************************************************************)
\* Grammar-generated expressions have at most MaxSize names and groups.
MaxSize == 5
\* Raw (not necessarily well-formed) expressions have at most MaxRawLen symbols.
MaxRawLen == 4

\* Names used in generated expressions and the alphabet of raw expressions.
ExprNames == {"A", "B"}
RawAlphabet == {"A", "B", "(", ")", ",", "+"}

VARIABLES
    \* ---- dependency-expression engine (VulkanFeature.py) ----
    tree,          \* the expression as a syntax tree (<<>> when drawn raw)
    src,           \* "grammar": expr = Render(tree); "raw": any symbols
    expr,          \* the dependency text
    active,        \* the set of enabled feature names it is checked against
    satResult,     \* outcome of is_satisfied
    guardResult,   \* outcome of to_header_guard
    featureGuard,  \* outcome of to_header_guard of the feature FeatureName
    \* ---- VulkanSpecification / DispatchTableGenerator.run ----
    doc,           \* the parsed document: core versions and extensions
    sel,           \* the selection: api, api_version, extensions, enable_deprecated
    enabled,       \* VulkanFeature.__enabled of every feature
    pc,            \* position of run
    order,         \* iteration order of the sets enabled_features / enabled_extensions
    visited,       \* how many names the current loop of run has visited
    lastExtension, \* the loop variable "extension" of run (or NoName)
    command_set,   \* the VulkanCommandSet of run: level -> set of commands
    warnings,      \* warnings written to stderr
    error,         \* the exception that ended run (kind "none" while running)
    output,        \* what was written to the output file / stdout
    \* ---- VulkanCommand / VulkanCommandSet on their own ----
    nodes,         \* the <command> nodes of the tree, in document order
    constructed,   \* outcome of VulkanCommand(tree, node) for every node
    cset,          \* a VulkanCommandSet: level -> set of commands
    op,            \* the last operation applied to cset
    catalog,       \* outcome of building the dictionary of commands
    \* ---- VulkanVersion on its own ----
    vtexts,        \* the version texts handed to VulkanVersion(...)
    versions,      \* outcome of VulkanVersion(text) for every text
    compared,      \* outcome of compare and the comparison operators
    \* ---- VulkanSpecification: locating the specification file ----
    host,          \* platform, environment and files of the machine
    located,       \* outcome of the search for the specification file
    \* ---- Tokenizer and the recursion of the engine, step by step ----
    tokenizer,     \* a Tokenizer: text, terminator, begin, stack, tokens
    calls          \* the calls of _check_dependencies / _to_header_guard

engineVars == <<tree, src, expr, active, satResult, guardResult, featureGuard>>
runVars == <<doc, sel, enabled, pc, order, visited, lastExtension, command_set, warnings, error, output>>
commandVars == <<nodes, constructed, cset, op, catalog>>
versionVars == <<vtexts, versions, compared>>
searchVars == <<host, located>>
tokenizerVars == <<tokenizer, calls>>
vars == <<tree, src, expr, active, satResult, guardResult, featureGuard,
          doc, sel, enabled, pc, order, visited, lastExtension, command_set, warnings, error, output,
          nodes, constructed, cset, op, catalog, vtexts, versions, compared,
          host, located, tokenizer, calls>>

(***************************************************************************)
(* Tokenizer (VulkanFeature.py).                                           *)
(***************************************************************************)
\* Outcome of scanning: ok with a position, or a ValueError naming the
\* unmatched parenthesis and its index.
ScanOk(end, stack) == [ok |-> TRUE, end |-> end, stack |-> stack, paren |-> "", index |-> 0]
ScanError(paren, index) == [ok |-> FALSE, end |-> 0, stack |-> <<>>, paren |-> paren, index |-> index]

\* Consume with the check for a ")" that closes nothing left out: the
\* parenthesis is stepped over like any other character.
RECURSIVE ConsumeLenient(_, _, _, _)
ConsumeLenient(text, end, stack, terminator) ==
    IF end >= Len(text)
    THEN IF Len(stack) > 0
         THEN ScanError("(", stack[Len(stack)])
         ELSE ScanOk(end, stack)
    ELSE IF text[end + 1] = "("
    THEN ConsumeLenient(text, end + 1, Append(stack, end), terminator)
    ELSE IF text[end + 1] = ")"
    THEN ConsumeLenient(text, end + 1, SubSeq(stack, 1, Len(stack) - 1), terminator)
    ELSE IF text[end + 1] = terminator /\ Len(stack) < 1
    THEN ScanOk(end, stack)
    ELSE ConsumeLenient(text, end + 1, stack, terminator)

\* Tokenizer.next_token: "while self.__consume(): pass", started at `end`
\* with the given stack of open-parenthesis indices; ends where __consume
\* returns False, or raises.
RECURSIVE Consume(_, _, _, _)
Consume(text, end, stack, terminator) ==
    IF end >= Len(text)
    THEN IF Len(stack) > 0
         THEN ScanError("(", stack[Len(stack)])
         ELSE ScanOk(end, stack)
    ELSE IF text[end + 1] = "("
    THEN Consume(text, end + 1, Append(stack, end), terminator)
    ELSE IF text[end + 1] = ")"
    THEN IF Len(stack) < 1
         THEN ScanError(")", end)
         ELSE Consume(text, end + 1, SubSeq(stack, 1, Len(stack) - 1), terminator)
    ELSE IF text[end + 1] = terminator /\ Len(stack) < 1
    THEN ScanOk(end, stack)
    ELSE Consume(text, end + 1, stack, terminator)

TokensOk(tokens) == [ok |-> TRUE, tokens |-> tokens, paren |-> "", index |-> 0]
TokensError(paren, index) == [ok |-> FALSE, tokens |-> <<>>, paren |-> paren, index |-> index]

\* _tokenize: "while tokenizer.has_more_characters(): tokens.append(next_token())".
\* has_more_characters is text[begin:] != "", i.e. begin < len(text);
\* next_token returns text[begin:end] and sets begin = end + 1.
RECURSIVE TokenizeFrom(_, _, _, _)
TokenizeFrom(text, begin, stack, terminator) ==
    IF ~(begin < Len(text))
    THEN TokensOk(<<>>)
    ELSE LET scan == Consume(text, begin, stack, terminator)
         IN  IF ~scan.ok
             THEN TokensError(scan.paren, scan.index)
             ELSE LET rest == TokenizeFrom(text, scan.end + 1, scan.stack, terminator)
                  IN  IF ~rest.ok
                      THEN rest
                      ELSE TokensOk(<<SubSeq(text, begin + 1, scan.end)>> \o rest.tokens)

Tokenize(text, terminator) == TokenizeFrom(text, 0, <<>>, terminator)
CommaTokenizer(text) == Tokenize(text, ",")
PlusTokenizer(text) == Tokenize(text, "+")

\* token.startswith("(")
StartsWithParen(token) == Len(token) > 0 /\ token[1] = "("
\* Strip that drops only the opening parenthesis: token[1:].
StripOpening(token) == SubSeq(token, 2, Len(token))
\* token[1 : len(token) - 1]
Strip(token) == SubSeq(token, 2, Len(token) - 1)
\* The text of a feature name.
NameText(n) == <<n>>

(***************************************************************************)
(* _check_dependencies / _check_dependencies_loop (VulkanFeature.py).      *)
(***************************************************************************)
BoolResult(b) == [ok |-> TRUE, val |-> b, paren |-> "", index |-> 0]
RaiseResult(paren, index) == [ok |-> FALSE, val |-> FALSE, paren |-> paren, index |-> index]

\* The position of the first token whose evaluation raised (0 if none):
\* the exception leaves the loop there.
FirstRaise(res) ==
    IF \E i \in 1..Len(res) : ~res[i].ok
    THEN CHOOSE i \in 1..Len(res) : ~res[i].ok /\ \A j \in 1..(i - 1) : res[j].ok
    ELSE 0

\* "True in res"
AnyTrue(res) == \E i \in 1..Len(res) : res[i].val
\* A count that asks for one True only.
CountIsOne(res) == Cardinality({i \in 1..Len(res) : res[i].val}) = 1
\* "res.count(True) == len(res)"
CountIsLen(res) == Cardinality({i \in 1..Len(res) : res[i].val}) = Len(res)

RECURSIVE CheckDependencies(_, _)
CheckDependenciesLoop(tokens, features) ==
    [i \in 1..Len(tokens) |->
        IF StartsWithParen(tokens[i])
        THEN CheckDependencies(Strip(tokens[i]), features)
        ELSE CheckDependencies(tokens[i], features)]

CheckDependencies(token, features) ==
    LET commas == CommaTokenizer(token)
    IN  IF ~commas.ok
        THEN RaiseResult(commas.paren, commas.index)
        ELSE IF Len(commas.tokens) = 1
        THEN LET pluses == PlusTokenizer(commas.tokens[1])
             IN  IF ~pluses.ok
                 THEN RaiseResult(pluses.paren, pluses.index)
                 ELSE IF Len(pluses.tokens) = 1
                 THEN BoolResult(pluses.tokens[1] \in {NameText(n) : n \in features})
                 ELSE LET res == CheckDependenciesLoop(pluses.tokens, features)
                          r == FirstRaise(res)
                      IN  IF r # 0
                          THEN res[r]
                          ELSE BoolResult(CountIsLen(res))
        ELSE LET res == CheckDependenciesLoop(commas.tokens, features)
                 r == FirstRaise(res)
             IN  IF r # 0
                 THEN res[r]
                 ELSE BoolResult(AnyTrue(res))

\* VulkanRequirement.is_satisfied / VulkanFeature.is_satisfied
IsSatisfied(dependency, features) ==
    IF dependency = <<>>
    THEN BoolResult(TRUE)
    ELSE CheckDependencies(dependency, features)

(***************************************************************************)
(* _to_header_guard / _to_header_guard_loop (VulkanFeature.py).            *)
(***************************************************************************)
TextResult(t) == [ok |-> TRUE, text |-> t, paren |-> "", index |-> 0]
RaiseText(paren, index) == [ok |-> FALSE, text |-> <<>>, paren |-> paren, index |-> index]

\* separator.join(parts)
RECURSIVE Join(_, _)
Join(parts, separator) ==
    IF Len(parts) = 0 THEN <<>>
    ELSE IF Len(parts) = 1 THEN parts[1]
    ELSE parts[1] \o separator \o Join(Tail(parts), separator)

RECURSIVE ToHeaderGuardText(_)
ToHeaderGuardLoop(tokens) ==
    [i \in 1..Len(tokens) |->
        IF StartsWithParen(tokens[i])
        THEN LET inner == ToHeaderGuardText(Strip(tokens[i]))
             IN  IF inner.ok THEN TextResult(<<"(">> \o inner.text \o <<")">>) ELSE inner
        ELSE ToHeaderGuardText(tokens[i])]

ToHeaderGuardText(subtoken) ==
    LET commas == CommaTokenizer(subtoken)
    IN  IF ~commas.ok
        THEN RaiseText(commas.paren, commas.index)
        ELSE IF Len(commas.tokens) = 1
        THEN LET pluses == PlusTokenizer(commas.tokens[1])
             IN  IF ~pluses.ok
                 THEN RaiseText(pluses.paren, pluses.index)
                 ELSE IF Len(pluses.tokens) = 1
                 THEN TextResult(<<"defined", "(">> \o pluses.tokens[1] \o <<")">>)
                 ELSE LET res == ToHeaderGuardLoop(pluses.tokens)
                          r == FirstRaise(res)
                      IN  IF r # 0
                          THEN res[r]
                          ELSE TextResult(Join([i \in 1..Len(res) |-> res[i].text], <<" && ">>))
        ELSE LET res == ToHeaderGuardLoop(commas.tokens)
                 r == FirstRaise(res)
             IN  IF r # 0
                 THEN res[r]
                 ELSE TextResult(Join([i \in 1..Len(res) |-> res[i].text], <<" || ">>))

\* VulkanRequirement.to_header_guard
RequirementHeaderGuard(dependency) == ToHeaderGuardText(dependency)

\* VulkanFeature.to_header_guard: " && ".join([ base, guard ]) when the
\* feature has a dependency, base alone otherwise.
FeatureHeaderGuard(name, dependency) ==
    LET base == <<"defined", "(">> \o NameText(name) \o <<")">>
    IN  IF dependency # <<>>
        THEN LET guard == ToHeaderGuardText(dependency)
             IN  IF guard.ok
                 THEN TextResult(Join(<<base, guard.text>>, <<" && ">>))
                 ELSE guard
        ELSE TextResult(base)

(***************************************************************************)
(* VulkanVersion (VulkanVersion.py).  Version text is a sequence of        *)
(* characters.                                                             *)
(***************************************************************************)
Digits == <<"0", "1", "2", "3", "4", "5", "6", "7", "8", "9">>
IsDigit(c) == \E d \in 1..Len(Digits) : Digits[d] = c
DigitValue(c) == (CHOOSE d \in 1..Len(Digits) : Digits[d] = c) - 1
IsSpace(c) == c = " "

\* The end (exclusive, 0-based) of the longest run of characters satisfying
\* the class that starts at `from`: \s* and \d+ are greedy.
RECURSIVE SpanEnd(_, _, _)
SpanEnd(text, from, digits) ==
    IF from < Len(text) /\ (IF digits THEN IsDigit(text[from + 1]) ELSE IsSpace(text[from + 1]))
    THEN SpanEnd(text, from + 1, digits)
    ELSE from

\* int(group, 10)
RECURSIVE ToInt(_)
ToInt(digits) ==
    IF Len(digits) = 0 THEN 0
    ELSE 10 * ToInt(SubSeq(digits, 1, Len(digits) - 1)) + DigitValue(digits[Len(digits)])

\* Python None where a text is expected.
NoneValue == <<"<None>">>
VersionOk(major, minor) == [ok |-> TRUE, major |-> major, minor |-> minor]
VersionError == [ok |-> FALSE, major |-> 0, minor |-> 0]

\* VulkanVersion.__init__: re.match(r"^\s*(\d+)\.(\d+)", version)
VulkanVersion(version) ==
    IF version = NoneValue
    THEN VersionError
    ELSE LET majorFrom == SpanEnd(version, 0, FALSE)
             majorTo == SpanEnd(version, majorFrom, TRUE)
             minorFrom == majorTo + 1
             minorTo == SpanEnd(version, minorFrom, TRUE)
         IN  IF /\ majorTo > majorFrom
                /\ majorTo < Len(version)
                /\ version[majorTo + 1] = "."
                /\ minorTo > minorFrom
             THEN VersionOk(ToInt(SubSeq(version, majorFrom + 1, majorTo)),
                            ToInt(SubSeq(version, minorFrom + 1, minorTo)))
             ELSE VersionError

\* compare that looks at the major numbers only.
CompareMajor(a, b) == a.major - b.major
\* compare that lets the minor numbers decide first.
CompareMinorFirst(a, b) ==
    LET res == a.minor - b.minor
    IN  IF res = 0 THEN a.major - b.major ELSE res
\* VulkanVersion.compare
Compare(a, b) ==
    LET res == a.major - b.major
    IN  IF res = 0 THEN a.minor - b.minor ELSE res
\* VulkanVersion.__eq__
VersionEq(a, b) == Compare(a, b) = 0
\* VulkanVersion.__lt__
VersionLt(a, b) == Compare(a, b) < 0
\* VulkanVersion.__le__
VersionLe(a, b) == Compare(a, b) <= 0
\* VulkanVersion.__gt__
VersionGt(a, b) == Compare(a, b) > 0
\* VulkanVersion.__ge__
VersionGe(a, b) == Compare(a, b) >= 0

(***************************************************************************)
(* VulkanCommand / VulkanCommandSet (VulkanCommand.py).                    *)
(***************************************************************************)
\* VulkanCommandLevel
LevelGlobal == 0
LevelInstance == 1
LevelDevice == 2
Levels == {LevelGlobal, LevelInstance, LevelDevice}

Command(name, level) == [name |-> name, level |-> level]
\* What find returns for an unknown name.
NoCommand == [name |-> "<None>", level |-> -1]

\* VulkanCommandSet.__init__
EmptyCommandSet == [l \in Levels |-> {}]
\* add that stores every command in the first tier, whatever its level.
AddToFirstTier(data, command) == [data EXCEPT ![LevelGlobal] = @ \cup {command}]
\* VulkanCommandSet.add
Add(data, command) == [data EXCEPT ![command.level] = @ \cup {command}]
\* VulkanCommandSet.__contains__
Contains(data, command) ==
    command \in data[LevelGlobal] \/ command \in data[LevelInstance] \/ command \in data[LevelDevice]
\* remove that deletes, from every tier, the commands with the name of the
\* given one.
RemoveByName(data, command) == [l \in Levels |-> {c \in data[l] : c.name # command.name}]
\* VulkanCommandSet.remove
Remove(data, command) ==
    IF Contains(data, command)
    THEN [data EXCEPT ![command.level] = @ \ {command}]
    ELSE data
\* VulkanCommandSet.__len__
Length(data) == Cardinality(data[LevelGlobal]) + Cardinality(data[LevelInstance]) + Cardinality(data[LevelDevice])
\* VulkanCommandSet.find: the stored command with that name, or none.
Find(data, name) ==
    LET stored == data[LevelGlobal] \cup data[LevelInstance] \cup data[LevelDevice]
    IN  IF \E c \in stored : c.name = name
        THEN CHOOSE c \in stored : c.name = name
        ELSE NoCommand

(***************************************************************************)
(* The grammar of dependency expressions (VulkanFeature.dependency):       *)
(*   expr := term ("," term)*   term := atom ("+" atom)*                   *)
(*   atom := NAME | "(" expr ")"                                           *)
(* An expression is a sequence of terms, a term a sequence of atoms.       *)
(***************************************************************************)
NameAtom(n) == [k |-> "name", n |-> n, e |-> <<>>]
GroupAtom(e) == [k |-> "group", n |-> "", e |-> e]

\* All expressions over `names` made of exactly `size` names and groups.
RECURSIVE ExprsOfSize(_, _), TermsOfSize(_, _), AtomsOfSize(_, _)
AtomsOfSize(names, size) ==
    IF size = 1
    THEN {NameAtom(n) : n \in names}
    ELSE {GroupAtom(e) : e \in ExprsOfSize(names, size - 1)}
TermsOfSize(names, size) ==
    {<<a>> : a \in AtomsOfSize(names, size)}
    \cup UNION {{<<a>> \o t : a \in AtomsOfSize(names, i), t \in TermsOfSize(names, size - i)}
                : i \in 1..(size - 1)}
ExprsOfSize(names, size) ==
    {<<t>> : t \in TermsOfSize(names, size)}
    \cup UNION {{<<t>> \o e : t \in TermsOfSize(names, i), e \in ExprsOfSize(names, size - i)}
                : i \in 1..(size - 1)}

\* The text of an expression.
RECURSIVE Render(_)
RenderAtom(a) == IF a.k = "name" THEN NameText(a.n) ELSE <<"(">> \o Render(a.e) \o <<")">>
RenderTerm(t) == Join([i \in 1..Len(t) |-> RenderAtom(t[i])], <<"+">>)
Render(e) == Join([i \in 1..Len(e) |-> RenderTerm(e[i])], <<",">>)

\* The meaning of an expression: "," is OR, "+" is AND and binds tighter,
\* a group is evaluated as a unit.
RECURSIVE Meaning(_, _)
AtomMeaning(a, X) == IF a.k = "name" THEN a.n \in X ELSE Meaning(a.e, X)
TermMeaning(t, X) == \A j \in 1..Len(t) : AtomMeaning(t[j], X)
Meaning(e, X) == \E i \in 1..Len(e) : TermMeaning(e[i], X)

\* The names that occur in an expression.
RECURSIVE NamesOf(_)
AtomNames(a) == IF a.k = "name" THEN {a.n} ELSE NamesOf(a.e)
NamesOf(e) == UNION {UNION {AtomNames(e[i][j]) : j \in 1..Len(e[i])} : i \in 1..Len(e)}

\* Shorthands for writing expressions down.
N(n) == NameAtom(n)
G(e) == GroupAtom(e)

\* "(((P,V11)+S2),V13)+L+R", the example of VulkanFeature.dependency, with
\* P = VK_KHR_get_physical_device_properties2, V11 = VK_VERSION_1_1,
\* S2 = VK_KHR_synchronization2, V13 = VK_VERSION_1_3,
\* L = VK_KHR_pipeline_library, R = VK_KHR_spirv_1_4.
DocumentedDependency ==
    << << G(<< << G(<< << G(<< <<N("P")>>, <<N("V11")>> >>), N("S2") >> >>) >>, <<N("V13")>> >>),
          N("L"), N("R") >> >>
\* "(A,B)+C"
GroupAndName == << << G(<< <<N("A")>>, <<N("B")>> >>), N("C") >> >>
\* "A+B,C"
AndOrNames == << <<N("A"), N("B")>>, <<N("C")>> >>
\* "(A,B)+C,D"
GroupAndNameOrName == << << G(<< <<N("A")>>, <<N("B")>> >>), N("C") >>, <<N("D")>> >>

NamedExprs == {DocumentedDependency, GroupAndName, AndOrNames, GroupAndNameOrName}
GeneratedExprs == UNION {ExprsOfSize(ExprNames, size) : size \in 1..MaxSize}

\* All texts of at most MaxRawLen symbols, well-formed or not.
RawTexts == UNION {[1..len -> RawAlphabet] : len \in 0..MaxRawLen}

(***************************************************************************)
(* The engine on its own: an expression and a name set are drawn, then     *)
(* is_satisfied and to_header_guard are applied to them.                   *)
(***************************************************************************)
NotRun == [ok |-> FALSE, paren |-> "not run", index |-> 0, val |-> FALSE, text |-> <<>>]
SatOutcome(r) == [ok |-> r.ok, paren |-> r.paren, index |-> r.index, val |-> r.val, text |-> <<>>]
GuardOutcome(r) == [ok |-> r.ok, paren |-> r.paren, index |-> r.index, val |-> FALSE, text |-> r.text]

\* The run variables while only the engine is exercised.
RunIdle ==
    /\ doc = <<>>
    /\ sel = <<>>
    /\ enabled = <<>>
    /\ pc = "idle"
    /\ order = <<>>
    /\ visited = 0
    /\ lastExtension = ""
    /\ command_set = <<>>
    /\ warnings = {}
    /\ error = <<>>
    /\ output = <<>>

\* The command and version variables while they are not exercised.
CommandsIdle ==
    /\ nodes = <<>>
    /\ constructed = <<>>
    /\ cset = <<>>
    /\ op = <<>>
    /\ catalog = <<>>
VersionIdle ==
    /\ vtexts = <<>>
    /\ versions = <<>>
    /\ compared = <<>>
SearchIdle ==
    /\ host = <<>>
    /\ located = <<>>
TokenizerIdle ==
    /\ tokenizer = <<>>
    /\ calls = <<>>

InitEngine ==
    /\ \/ /\ src = "grammar"
          /\ tree \in GeneratedExprs
          /\ expr = Render(tree)
          /\ active \in SUBSET ExprNames
       \/ /\ src = "grammar"
          /\ tree \in NamedExprs
          /\ expr = Render(tree)
          /\ active \in SUBSET NamesOf(tree)
       \/ /\ src = "raw"
          /\ tree = <<>>
          /\ expr \in RawTexts
          /\ active \in SUBSET ExprNames
    /\ satResult = NotRun
    /\ guardResult = NotRun
    /\ featureGuard = NotRun
    /\ RunIdle
    /\ CommandsIdle
    /\ VersionIdle
    /\ SearchIdle
    /\ TokenizerIdle

\* requirement.is_satisfied(active)
CheckIsSatisfied ==
    /\ satResult = NotRun
    /\ satResult' = SatOutcome(IsSatisfied(expr, active))
    /\ UNCHANGED <<tree, src, expr, active, guardResult, featureGuard>>
    /\ UNCHANGED runVars
    /\ UNCHANGED commandVars
    /\ UNCHANGED versionVars
    /\ UNCHANGED searchVars
    /\ UNCHANGED tokenizerVars

\* requirement.to_header_guard()
ToHeaderGuard ==
    /\ guardResult = NotRun
    /\ guardResult' = GuardOutcome(RequirementHeaderGuard(expr))
    /\ UNCHANGED <<tree, src, expr, active, satResult, featureGuard>>
    /\ UNCHANGED runVars
    /\ UNCHANGED commandVars
    /\ UNCHANGED versionVars
    /\ UNCHANGED searchVars
    /\ UNCHANGED tokenizerVars

\* The name of the feature whose own dependency is expr.
FeatureName == "F"

\* feature.to_header_guard()
FeatureToHeaderGuard ==
    /\ featureGuard = NotRun
    /\ featureGuard' = GuardOutcome(FeatureHeaderGuard(FeatureName, expr))
    /\ UNCHANGED <<tree, src, expr, active, satResult, guardResult>>
    /\ UNCHANGED runVars
    /\ UNCHANGED commandVars
    /\ UNCHANGED versionVars
    /\ UNCHANGED searchVars
    /\ UNCHANGED tokenizerVars

NextEngine == CheckIsSatisfied \/ ToHeaderGuard \/ FeatureToHeaderGuard

SpecEngine == InitEngine /\ [][NextEngine]_vars

(***************************************************************************)
(* Claims about the engine, checked under SpecEngine.                      *)
(***************************************************************************)
SatRan == satResult # NotRun
GuardRan == guardResult # NotRun

\* A ","-segment made of bare names, or one that begins with a
\* parenthesized group followed by "+".
SegmentOfNames(t) == \A j \in 1..Len(t) : t[j].k = "name"
SegmentGroupFirst(t) == Len(t) > 1 /\ t[1].k = "group"

\* C8: an expression whose top-level ","-split yields several segments,
\* each made of bare names or beginning with a group followed by "+", is
\* satisfied iff at least one segment is, a segment being the AND of its
\* operands; its evaluation returns a boolean and never raises.
C8_OrOfAnds ==
    ( /\ src = "grammar"
      /\ Len(tree) > 1
      /\ \A i \in 1..Len(tree) : SegmentOfNames(tree[i]) \/ SegmentGroupFirst(tree[i])
      /\ SatRan ) =>
        /\ satResult.ok
        /\ satResult.val = (\E i \in 1..Len(tree) : TermMeaning(tree[i], active))

\* C9: the documented dependency "(((P,V11)+S2),V13)+L+R" is satisfied by X
\* exactly when (((P or V11) and S2) or V13) and L and R, and "(A,B)+C"
\* exactly when (A or B) and C: a group that is an operand is one unit.
C9_GroupsAreUnits ==
    /\ (tree = DocumentedDependency /\ SatRan) =>
          /\ satResult.ok
          /\ satResult.val =
                ( /\ \/ (("P" \in active \/ "V11" \in active) /\ "S2" \in active)
                     \/ "V13" \in active
                  /\ "L" \in active
                  /\ "R" \in active )
    /\ (tree = GroupAndName /\ SatRan) =>
          /\ satResult.ok
          /\ satResult.val = (("A" \in active \/ "B" \in active) /\ "C" \in active)

\* The nested group of the documented dependency decided the result: the
\* name set satisfies it through P and S2, without V13.
C9_Witness ==
    /\ tree = DocumentedDependency
    /\ active = {"P", "S2", "L", "R"}
    /\ SatRan /\ satResult.ok /\ satResult.val

\* Parentheses of a text, matched the usual way: the symbols strictly
\* between a matching pair are balanced.
CountIn(text, a, b, c) == Cardinality({m \in a..b : text[m] = c})
Balanced(text, a, b) ==
    /\ CountIn(text, a, b, "(") = CountIn(text, a, b, ")")
    /\ \A m \in a..b : CountIn(text, a, m, "(") >= CountIn(text, a, m, ")")
Matched(text, i) ==
    IF text[i] = "("
    THEN \E j \in (i + 1)..Len(text) : text[j] = ")" /\ Balanced(text, i + 1, j - 1)
    ELSE \E j \in 1..(i - 1) : text[j] = "(" /\ Balanced(text, j + 1, i - 1)
\* The 0-based indices of the unmatched parentheses of a text.
UnmatchedIndices(text) ==
    {i - 1 : i \in {m \in 1..Len(text) : text[m] \in {"(", ")"} /\ ~Matched(text, m)}}

\* The outcome is a tokenization error that names an unmatched parenthesis
\* of the text and its index.
NamesUnmatched(outcome, text) ==
    /\ ~outcome.ok
    /\ outcome.index \in UnmatchedIndices(text)
    /\ text[outcome.index + 1] = outcome.paren

\* C10: is_satisfied and to_header_guard of a non-empty expression with an
\* unmatched "(" or ")" raise a tokenization error that identifies the
\* index of an unmatched parenthesis; neither returns a value.
C10_UnmatchedRaises ==
    (expr # <<>> /\ UnmatchedIndices(expr) # {}) =>
        /\ SatRan => NamesUnmatched(satResult, expr)
        /\ GuardRan => NamesUnmatched(guardResult, expr)

\* An unmatched "(" nested inside a matched pair was evaluated and compiled.
C10_Witness ==
    /\ expr = <<"(", "(", ")", "A">>
    /\ SatRan /\ GuardRan
    /\ satResult.paren = "(" /\ satResult.index = 0
    /\ guardResult.paren = "(" /\ guardResult.index = 0

(***************************************************************************)
(* A header guard read as a C preprocessor condition:                      *)
(*   or := and (" || " and)*     and := primary (" && " primary)*          *)
(*   primary := "defined" "(" IDENTIFIER ")" | "(" or ")"                  *)
(* "&&" binds tighter than "||"; defined(N) is true iff N is in X.         *)
(***************************************************************************)
CppSymbols == {"defined", "(", ")", " && ", " || ", ",", "+"}
IsIdentifier(c) == c \notin CppSymbols
CppFail == [ok |-> FALSE, val |-> FALSE, pos |-> 0]
CppDone(val, pos) == [ok |-> TRUE, val |-> val, pos |-> pos]

RECURSIVE CppOr(_, _, _), CppAnd(_, _, _), CppPrimary(_, _, _)
RECURSIVE CppOrRest(_, _, _, _), CppAndRest(_, _, _, _)
CppPrimary(text, pos, X) ==
    IF pos > Len(text)
    THEN CppFail
    ELSE IF text[pos] = "defined"
    THEN IF /\ pos + 3 <= Len(text)
            /\ text[pos + 1] = "("
            /\ IsIdentifier(text[pos + 2])
            /\ text[pos + 3] = ")"
         THEN CppDone(text[pos + 2] \in X, pos + 4)
         ELSE CppFail
    ELSE IF text[pos] = "("
    THEN LET r == CppOr(text, pos + 1, X)
         IN  IF r.ok /\ r.pos <= Len(text) /\ text[r.pos] = ")"
             THEN CppDone(r.val, r.pos + 1)
             ELSE CppFail
    ELSE CppFail
CppAndRest(text, pos, X, acc) ==
    IF pos <= Len(text) /\ text[pos] = " && "
    THEN LET r == CppPrimary(text, pos + 1, X)
         IN  IF r.ok THEN CppAndRest(text, r.pos, X, acc /\ r.val) ELSE CppFail
    ELSE CppDone(acc, pos)
CppAnd(text, pos, X) ==
    LET r == CppPrimary(text, pos, X)
    IN  IF r.ok THEN CppAndRest(text, r.pos, X, r.val) ELSE CppFail
CppOrRest(text, pos, X, acc) ==
    IF pos <= Len(text) /\ text[pos] = " || "
    THEN LET r == CppAnd(text, pos + 1, X)
         IN  IF r.ok THEN CppOrRest(text, r.pos, X, acc \/ r.val) ELSE CppFail
    ELSE CppDone(acc, pos)
CppOr(text, pos, X) ==
    LET r == CppAnd(text, pos, X)
    IN  IF r.ok THEN CppOrRest(text, r.pos, X, r.val) ELSE CppFail

\* The text is a well-formed condition / its value with the names X defined.
CppValid(text) == LET r == CppOr(text, 1, {}) IN r.ok /\ r.pos = Len(text) + 1
CppValue(text, X) == CppOr(text, 1, X).val

\* C11: for every grammar-valid expression and every active-name set, the
\* header guard of the expression is a preprocessor condition whose value
\* with exactly the active names defined equals the result of is_satisfied.
C11_GuardEquivalent ==
    (src = "grammar" /\ SatRan /\ GuardRan) =>
        /\ satResult.ok
        /\ guardResult.ok
        /\ CppValid(guardResult.text)
        /\ CppValue(guardResult.text, active) = satResult.val

FeatureGuardRan == featureGuard # NotRun

\* C12: the header guard of a feature F whose dependency is a single name,
\* an AND of names, an OR of names or an OR of ANDs of names is true, as a
\* preprocessor condition, exactly when F is defined and the dependency is
\* satisfied; with an empty dependency it is exactly "defined(F)".
C12_FeatureGuardIsNameAndDependency ==
    /\ ( /\ src = "grammar"
         /\ \A i \in 1..Len(tree) : SegmentOfNames(tree[i])
         /\ FeatureGuardRan ) =>
            /\ featureGuard.ok
            /\ CppValid(featureGuard.text)
            /\ \A X \in {active, active \cup {FeatureName}} :
                  CppValue(featureGuard.text, X) = (FeatureName \in X /\ Meaning(tree, active))
    /\ (expr = <<>> /\ FeatureGuardRan) =>
            /\ featureGuard.ok
            /\ featureGuard.text = <<"defined", "(", FeatureName, ")">>

\* The guard an expression compiles to when it is built structurally: a
\* name N gives defined(N), the operands of an AND are joined with " && ",
\* those of an OR with " || ", a group is compiled and re-wrapped in
\* parentheses.
RECURSIVE StructuralGuard(_)
StructuralAtom(a) ==
    IF a.k = "name"
    THEN <<"defined", "(", a.n, ")">>
    ELSE <<"(">> \o StructuralGuard(a.e) \o <<")">>
StructuralTerm(t) == Join([j \in 1..Len(t) |-> StructuralAtom(t[j])], <<" && ">>)
StructuralGuard(e) == Join([i \in 1..Len(e) |-> StructuralTerm(e[i])], <<" || ">>)

\* C13: to_header_guard of a grammar-valid expression returns the text
\* built structurally from it, with parentheses nested as in the
\* expression: "A+B" gives "defined(A) && defined(B)" and "(A,B)+C" gives
\* "(defined(A) || defined(B)) && defined(C)".
C13_GuardIsStructural ==
    (src = "grammar" /\ GuardRan) =>
        /\ guardResult.ok
        /\ guardResult.text = StructuralGuard(tree)

(***************************************************************************)
(* Documents.  A document lists core versions ("feature" nodes) and        *)
(* extensions ("extension" nodes); the command catalog is the three        *)
(* commands below, one per level.                                          *)
(***************************************************************************)
vkCreateInstance == Command("vkCreateInstance", LevelGlobal)
vkDestroySurfaceKHR == Command("vkDestroySurfaceKHR", LevelInstance)
vkResetQueryPool == Command("vkResetQueryPool", LevelDevice)
Catalog == {vkCreateInstance, vkDestroySurfaceKHR, vkResetQueryPool}

\* Dependency expressions that occur in the documents.  "X" names a feature
\* that is in no document.
DepEmpty == <<>>
DepX == << <<N("X")>> >>
DepV11 == << <<N("V11")>> >>
DepE1 == << <<N("E1")>> >>
DepE2 == << <<N("E2")>> >>
DepV11AndE1 == << <<N("V11"), N("E1")>> >>
\* "(E2,X)+V10,V11"
DepGroupFirst == << << G(<< <<N("E2")>>, <<N("X")>> >>), N("V10") >>, <<N("V11")>> >>
DocumentDependencies == {DepEmpty, DepX, DepV11, DepE1, DepE2, DepV11AndE1, DepGroupFirst}
\* depends="(V10": the text of a "depends" attribute whose parenthesis is
\* never closed.  node.get("depends") stores whatever text the node has.
DepUnmatched == <<"(", "V10">>

\* VulkanRequirement: its resolved commands and its dependency text.
Requirement(commands, dependency) == [commands |-> commands, dependency |-> Render(dependency)]

\* VulkanFeature as built by __init__ from a node (enabled is kept in the
\* variable `enabled`).  `number` is the version text: the "number"
\* attribute of a core version, "<SPEC_VERSION value>.0" or "0.0" of an
\* extension.
Feature(name, tag, number, apis, dependency, deprecatedby, requirements, removals) ==
    [name |-> name, tag |-> tag, number |-> number, supported_apis |-> apis,
     dependency |-> Render(dependency), deprecatedby |-> deprecatedby,
     requirements |-> requirements, removals |-> removals]

V10Shapes ==
    {Feature("V10", "feature", <<"1", ".", "0">>, {"vulkan", "vulkansc"}, d, NoneValue,
             << Requirement({vkCreateInstance}, DepEmpty),
                Requirement({vkDestroySurfaceKHR}, DepE1) >>, {})
        : d \in {DepEmpty, DepX}}
V11Shapes ==
    {Feature("V11", "feature", s.number, {"vulkan"}, DepEmpty, NoneValue,
             << Requirement({vkResetQueryPool}, DepEmpty) >>, s.removals)
        : s \in {[number |-> <<"1", ".", "1">>, removals |-> {}],
                 [number |-> <<"1", ".", "1">>, removals |-> {"vkDestroySurfaceKHR"}],
                 [number |-> <<"2", ".", "0">>, removals |-> {}]}}
E1Shapes ==
    {Feature("E1", "extension", <<"2", "5", ".", "0">>, {"vulkan", "vulkansc"}, s.dependency,
             s.deprecatedby,
             << Requirement({vkDestroySurfaceKHR}, DepEmpty),
                Requirement({vkResetQueryPool}, DepE2) >>, s.removals)
        : s \in {[dependency |-> DepEmpty, deprecatedby |-> NoneValue, removals |-> {"vkCreateInstance"}],
                 [dependency |-> DepEmpty, deprecatedby |-> <<"E2">>, removals |-> {}],
                 [dependency |-> DepV11, deprecatedby |-> NoneValue, removals |-> {}],
                 [dependency |-> DepGroupFirst, deprecatedby |-> NoneValue, removals |-> {}]}}
E2Shapes ==
    {Feature("E2", "extension", <<"0", ".", "0">>, {"vulkan"}, s.dependency, s.deprecatedby,
             << Requirement({vkDestroySurfaceKHR, vkResetQueryPool}, s.requires) >>, s.removals)
        : s \in {[dependency |-> DepEmpty, deprecatedby |-> NoneValue, requires |-> DepEmpty,
                  removals |-> {"vkResetQueryPool"}],
                 [dependency |-> DepX, deprecatedby |-> <<>>, requires |-> DepEmpty,
                  removals |-> {}],
                 [dependency |-> DepEmpty, deprecatedby |-> NoneValue, requires |-> DepV11AndE1,
                  removals |-> {"vkNotACommand"}],
                 [dependency |-> DepEmpty, deprecatedby |-> NoneValue, requires |-> DepGroupFirst,
                  removals |-> {}]}}
    \cup {[Feature("E2", "extension", <<"0", ".", "0">>, {"vulkan"}, DepEmpty, NoneValue,
                    << Requirement({vkDestroySurfaceKHR, vkResetQueryPool}, DepEmpty) >>, {})
               EXCEPT !.dependency = DepUnmatched]}

FeatureNames == {"V10", "V11"}
ExtensionNames == {"E1", "E2"}
Documents ==
    {[features |-> [n \in FeatureNames |-> IF n = "V10" THEN v10 ELSE v11],
      extensions |-> [n \in ExtensionNames |-> IF n = "E1" THEN e1 ELSE e2]]
        : v10 \in V10Shapes, v11 \in V11Shapes, e1 \in E1Shapes, e2 \in E2Shapes}

\* Selections: the arguments of DispatchTableGenerator / VulkanSpecification.
\* `extensions` is None (none = TRUE) or a set of names.
Latest == <<"l", "a", "t", "e", "s", "t">>
ExtensionSets ==
    {[none |-> TRUE, names |-> {}]}
    \cup {[none |-> FALSE, names |-> s] : s \in {{"E1"}, {"E2"}, {"E1", "E2"}, {"all"}}}
Selections ==
    [api : {"vulkan", "vulkansc"},
     api_version : {Latest, <<"1", ".", "0">>, <<"1", ".", "1">>, <<"1">>},
     extensions : ExtensionSets,
     enable_deprecated : {"True", "False", "None"},
     quiet : {FALSE}]

(***************************************************************************)
(* VulkanFeature accessors (VulkanFeature.py).                             *)
(***************************************************************************)
\* VulkanFeature.deprecated: bool(node.get("deprecatedby"))
Deprecated(feature) == feature.deprecatedby # NoneValue /\ feature.deprecatedby # <<>>
\* VulkanFeature.version
Version(feature) == VulkanVersion(feature.number)

(***************************************************************************)
(* VulkanSpecification.__init__ (VulkanSpecification.py): which features   *)
(* are enabled.                                                            *)
(***************************************************************************)
\* "if extensions is None: extensions = set()"
RequestedExtensions(extensions) == IF extensions.none THEN {} ELSE extensions.names
\* Truth value of the enable_deprecated argument (None is false).
Truthy(flag) == flag = "True"

\* latest_api = VulkanVersion(api_version) if api_version != "latest" else None
LatestApi(api_version) ==
    IF api_version # Latest
    THEN [none |-> FALSE, version |-> VulkanVersion(api_version)]
    ELSE [none |-> TRUE, version |-> VersionError]

\* EnableCore with "<" for "<=": the requested version itself stays disabled.
EnableCoreBelow(feature, api, latest_api) ==
    /\ api \in feature.supported_apis
    /\ (latest_api.none \/ Compare(Version(feature), latest_api.version) < 0)

\* The loop over tree.findall("feature")
EnableCore(feature, api, latest_api) ==
    /\ api \in feature.supported_apis
    /\ (latest_api.none \/ VersionLe(Version(feature), latest_api.version))

\* EnableExtension that takes the deprecation policy into account only for
\* extensions enabled through "all".
EnableExtensionNamed(feature, api, extensions, enable_deprecated) ==
    IF /\ api \in feature.supported_apis
       /\ (feature.name \in extensions \/ "all" \in extensions)
    THEN LET deprecated == Deprecated(feature)
         IN  feature.name \in extensions \/ ~deprecated \/ (Truthy(enable_deprecated) /\ deprecated)
    ELSE FALSE

\* The loop over tree.findall("extensions/extension")
EnableExtension(feature, api, extensions, enable_deprecated) ==
    IF /\ api \in feature.supported_apis
       /\ (feature.name \in extensions \/ "all" \in extensions)
    THEN LET deprecated == Deprecated(feature)
         IN  ~deprecated \/ (Truthy(enable_deprecated) /\ deprecated)
    ELSE FALSE

(***************************************************************************)
(* DispatchTableGenerator.run (DispatchTableGenerator.py).                 *)
(***************************************************************************)
NoError == [kind |-> "none", feature |-> "", at |-> "", paren |-> "", index |-> 0]
\* ValueError: the feature / extension has an unmet dependency.
UnmetDependency(name) == [kind |-> "unmet", feature |-> name, at |-> "feature", paren |-> "", index |-> 0]
\* ValueError raised by the Tokenizer while a dependency was evaluated.
TokenizerError(name, at, r) == [kind |-> "tokenizer", feature |-> name, at |-> at, paren |-> r.paren, index |-> r.index]
\* ValueError raised by VulkanVersion for the requested api_version.
VersionValueError == [kind |-> "version", feature |-> "", at |-> "", paren |-> "", index |-> 0]

NoOutput == [written |-> FALSE, commands |-> EmptyCommandSet]
DeprecatedWarning(name) == [kind |-> "deprecated", feature |-> name, dependency |-> <<>>]
SkippedWarning(name, dependency) == [kind |-> "skipped", feature |-> name, dependency |-> dependency]

\* All orders in which a set can be iterated.
Orders(S) == {o \in [1..Cardinality(S) -> S] : \A i, j \in 1..Cardinality(S) : o[i] = o[j] => i = j}

\* __enabled_features / __enabled_extensions
EnabledFeatures == {n \in DOMAIN doc.features : enabled[n]}
EnabledExtensions == {n \in DOMAIN doc.extensions : enabled[n]}
\* enabled = enabled_features | enabled_extensions
EnabledNames == EnabledFeatures \cup EnabledExtensions

Init ==
    /\ doc \in Documents
    /\ sel \in Selections
    /\ enabled = [n \in FeatureNames \cup ExtensionNames |-> FALSE]
    /\ pc = "construct"
    /\ order = [features |-> <<>>, extensions |-> <<>>]
    /\ visited = 0
    /\ lastExtension = ""
    /\ command_set = EmptyCommandSet
    /\ warnings = {}
    /\ error = NoError
    /\ output = NoOutput
    /\ tree = <<>> /\ src = "idle" /\ expr = <<>> /\ active = {}
    /\ satResult = NotRun /\ guardResult = NotRun /\ featureGuard = NotRun
    /\ CommandsIdle
    /\ VersionIdle
    /\ SearchIdle
    /\ TokenizerIdle

\* VulkanSpecification(...) and the lines of run up to the first loop: the
\* features are parsed and enabled, the enabled names are collected.  The
\* two sets of names are iterated in an order fixed by the sets.
Construct ==
    /\ pc = "construct"
    /\ LET latest_api == LatestApi(sel.api_version)
           extensions == RequestedExtensions(sel.extensions)
           flags == [n \in FeatureNames \cup ExtensionNames |->
                        IF n \in FeatureNames
                        THEN EnableCore(doc.features[n], sel.api, latest_api)
                        ELSE EnableExtension(doc.extensions[n], sel.api, extensions,
                                             sel.enable_deprecated)]
       IN  IF ~latest_api.none /\ ~latest_api.version.ok
           THEN /\ pc' = "failed"
                /\ error' = VersionValueError
                /\ UNCHANGED <<enabled, order>>
           ELSE /\ enabled' = flags
                /\ \E features \in Orders({n \in FeatureNames : flags[n]}),
                      extensions_order \in Orders({n \in ExtensionNames : flags[n]}) :
                        order' = [features |-> features, extensions |-> extensions_order]
                /\ pc' = "add_features"
                /\ UNCHANGED error
    /\ UNCHANGED <<doc, sel, visited, lastExtension, command_set, warnings, output>>
    /\ UNCHANGED engineVars
    /\ UNCHANGED commandVars
    /\ UNCHANGED versionVars
    /\ UNCHANGED searchVars
    /\ UNCHANGED tokenizerVars

\* "for command in requirement.commands(): command_set.add(command)"
RECURSIVE AddCommands(_, _)
AddCommands(data, commands) ==
    IF commands = {}
    THEN data
    ELSE LET command == CHOOSE c \in commands : TRUE
         IN  AddCommands(Add(data, command), commands \ {command})

\* AddRequirements without the test of requirement.is_satisfied: the
\* commands of every requirement are added.
RequirementsAdded(data, warned) ==
    [ok |-> TRUE, data |-> data, warnings |-> warned, paren |-> "", index |-> 0]
RECURSIVE AddRequirementsUnconditionally(_, _, _, _, _, _, _)
AddRequirementsUnconditionally(feature, i, names, data, warned, warn, quiet) ==
    IF i > Len(feature.requirements)
    THEN RequirementsAdded(data, warned)
    ELSE AddRequirementsUnconditionally(feature, i + 1, names,
                                        AddCommands(data, feature.requirements[i].commands),
                                        warned, warn, quiet)

\* "for requirement in feature.requirements()": the commands of satisfied
\* requirements are added in turn; an exception of is_satisfied leaves the
\* loop with what was added before.  Only the extension loop warns about a
\* skipped requirement that has commands.
RequirementsResult(ok, data, warned, r) ==
    [ok |-> ok, data |-> data, warnings |-> warned, paren |-> r.paren, index |-> r.index]
RECURSIVE AddRequirements(_, _, _, _, _, _, _)
AddRequirements(feature, i, names, data, warned, warn, quiet) ==
    IF i > Len(feature.requirements)
    THEN RequirementsResult(TRUE, data, warned, BoolResult(TRUE))
    ELSE LET requirement == feature.requirements[i]
             satisfied == IsSatisfied(requirement.dependency, names)
             added == AddCommands(data, requirement.commands)
         IN  IF ~satisfied.ok
             THEN RequirementsResult(FALSE, data, warned, satisfied)
             ELSE IF satisfied.val
             THEN AddRequirements(feature, i + 1, names, added, warned, warn, quiet)
             ELSE IF warn /\ Cardinality(requirement.commands) > 0 /\ ~quiet
             THEN AddRequirements(feature, i + 1, names, data,
                                  warned \cup {SkippedWarning(feature.name, requirement.dependency)},
                                  warn, quiet)
             ELSE AddRequirements(feature, i + 1, names, data, warned, warn, quiet)

\* One iteration of either addition loop for `feature`.
AddStep(feature, at_extension) ==
    LET warned == IF Deprecated(feature) /\ ~sel.quiet
                  THEN warnings \cup {DeprecatedWarning(feature.name)}
                  ELSE warnings
        satisfied == IsSatisfied(feature.dependency, EnabledNames)
        added == AddRequirements(feature, 1, EnabledNames, command_set, warned, at_extension, sel.quiet)
    IN  IF ~satisfied.ok
        THEN /\ pc' = "failed"
             /\ error' = TokenizerError(feature.name, "feature", satisfied)
             /\ warnings' = warned
             /\ UNCHANGED <<command_set, visited>>
        ELSE IF ~satisfied.val
        THEN /\ pc' = "failed"
             /\ error' = UnmetDependency(feature.name)
             /\ warnings' = warned
             /\ UNCHANGED <<command_set, visited>>
        ELSE IF ~added.ok
        THEN /\ pc' = "failed"
             /\ error' = TokenizerError(feature.name, "requirement", added)
             /\ warnings' = added.warnings
             /\ command_set' = added.data
             /\ UNCHANGED visited
        ELSE /\ command_set' = added.data
             /\ warnings' = added.warnings
             /\ visited' = visited + 1
             /\ UNCHANGED <<pc, error>>

\* The iteration, were it to disable a feature whose dependency is unmet.
AddFeatureDisabling ==
    /\ pc = "add_features"
    /\ visited < Len(order.features)
    /\ AddStep(doc.features[order.features[visited + 1]], FALSE)
    /\ enabled' = [enabled EXCEPT ![order.features[visited + 1]] = (pc' # "failed")]
    /\ UNCHANGED <<doc, sel, order, lastExtension, output>>
    /\ UNCHANGED engineVars
    /\ UNCHANGED commandVars
    /\ UNCHANGED versionVars
    /\ UNCHANGED searchVars
    /\ UNCHANGED tokenizerVars
\* "for name in enabled_features": one iteration.
AddFeature ==
    /\ pc = "add_features"
    /\ visited < Len(order.features)
    /\ AddStep(doc.features[order.features[visited + 1]], FALSE)
    /\ UNCHANGED <<doc, sel, enabled, order, lastExtension, output>>
    /\ UNCHANGED engineVars
    /\ UNCHANGED commandVars
    /\ UNCHANGED versionVars
    /\ UNCHANGED searchVars
    /\ UNCHANGED tokenizerVars

\* "for name in enabled_extensions": one iteration.
AddExtension ==
    /\ pc = "add_extensions"
    /\ visited < Len(order.extensions)
    /\ lastExtension' = order.extensions[visited + 1]
    /\ AddStep(doc.extensions[order.extensions[visited + 1]], TRUE)
    /\ UNCHANGED <<doc, sel, enabled, order, output>>
    /\ UNCHANGED engineVars
    /\ UNCHANGED commandVars
    /\ UNCHANGED versionVars
    /\ UNCHANGED searchVars
    /\ UNCHANGED tokenizerVars

\* "for removal in removals: command_set.remove(command_set.find(removal))"
RECURSIVE RemoveAll(_, _)
RemoveAll(data, removals) ==
    IF removals = {}
    THEN data
    ELSE LET removal == CHOOSE r \in removals : TRUE
         IN  RemoveAll(Remove(data, Find(data, removal)), removals \ {removal})

\* First removal loop, one iteration: the removals of the visited feature.
RemoveFeature ==
    /\ pc = "remove_features"
    /\ visited < Len(order.features)
    /\ command_set' = RemoveAll(command_set, doc.features[order.features[visited + 1]].removals)
    /\ visited' = visited + 1
    /\ UNCHANGED <<doc, sel, enabled, pc, order, lastExtension, warnings, error, output>>
    /\ UNCHANGED engineVars
    /\ UNCHANGED commandVars
    /\ UNCHANGED versionVars
    /\ UNCHANGED searchVars
    /\ UNCHANGED tokenizerVars

\* Second removal loop, one iteration: the loop assigns the visited
\* extension to "extensions" and removes the removals of "extension", the
\* variable the addition loop left behind.
RemoveExtension ==
    /\ pc = "remove_extensions"
    /\ visited < Len(order.extensions)
    /\ command_set' = RemoveAll(command_set, doc.extensions[lastExtension].removals)
    /\ visited' = visited + 1
    /\ UNCHANGED <<doc, sel, enabled, pc, order, lastExtension, warnings, error, output>>
    /\ UNCHANGED engineVars
    /\ UNCHANGED commandVars
    /\ UNCHANGED versionVars
    /\ UNCHANGED searchVars
    /\ UNCHANGED tokenizerVars

\* NextLoop with the removals of the core versions applied before the
\* extensions are added.
LoopLengthRemovalsFirst ==
    IF pc \in {"add_features", "remove_features"} THEN Len(order.features) ELSE Len(order.extensions)
NextLoopRemovalsFirst ==
    /\ pc \in {"add_features", "add_extensions", "remove_features", "remove_extensions"}
    /\ visited = LoopLengthRemovalsFirst
    /\ pc' = CASE pc = "add_features" -> "remove_features"
               [] pc = "remove_features" -> "add_extensions"
               [] pc = "add_extensions" -> "remove_extensions"
               [] pc = "remove_extensions" -> "render"
    /\ visited' = 0
    /\ UNCHANGED <<doc, sel, enabled, order, lastExtension, command_set, warnings, error, output>>
    /\ UNCHANGED engineVars
    /\ UNCHANGED commandVars
    /\ UNCHANGED versionVars
    /\ UNCHANGED searchVars
    /\ UNCHANGED tokenizerVars

\* The end of a loop: run goes on with the next one.
LoopLength ==
    IF pc \in {"add_features", "remove_features"} THEN Len(order.features) ELSE Len(order.extensions)
NextLoop ==
    /\ pc \in {"add_features", "add_extensions", "remove_features", "remove_extensions"}
    /\ visited = LoopLength
    /\ pc' = CASE pc = "add_features" -> "add_extensions"
               [] pc = "add_extensions" -> "remove_features"
               [] pc = "remove_features" -> "remove_extensions"
               [] pc = "remove_extensions" -> "render"
    /\ visited' = 0
    /\ UNCHANGED <<doc, sel, enabled, order, lastExtension, command_set, warnings, error, output>>
    /\ UNCHANGED engineVars
    /\ UNCHANGED commandVars
    /\ UNCHANGED versionVars
    /\ UNCHANGED searchVars
    /\ UNCHANGED tokenizerVars

\* template.render(commands=command_set, ...) and the write of the result.
WriteOutput ==
    /\ pc = "render"
    /\ output' = [written |-> TRUE, commands |-> command_set]
    /\ pc' = "done"
    /\ UNCHANGED <<doc, sel, enabled, order, visited, lastExtension, command_set, warnings, error>>
    /\ UNCHANGED engineVars
    /\ UNCHANGED commandVars
    /\ UNCHANGED versionVars
    /\ UNCHANGED searchVars
    /\ UNCHANGED tokenizerVars

Next ==
    \/ Construct
    \/ AddFeature
    \/ AddExtension
    \/ RemoveFeature
    \/ RemoveExtension
    \/ NextLoop
    \/ WriteOutput

Spec == Init /\ [][Next]_vars

(***************************************************************************)
(* Claims about construction and run, checked under Spec.                  *)
(***************************************************************************)
\* All commands of a command set, whatever their tier.
Stored(data) == data[LevelGlobal] \cup data[LevelInstance] \cup data[LevelDevice]
StoredNames(data) == {c.name : c \in Stored(data)}
\* The feature (core version or extension) of a name.
FeatureOf(n) == IF n \in FeatureNames THEN doc.features[n] ELSE doc.extensions[n]
\* The meaning of a dependency text of the documents against a name set.
DependencyTree(text) == CHOOSE t \in DocumentDependencies : Render(t) = text
\* The text is an expression of the dependency grammar.
Documented(text) == \E t \in DocumentDependencies : Render(t) = text
Holds(text, X) == text = <<>> \/ Meaning(DependencyTree(text), X)
\* The specification was constructed: run is past VulkanSpecification(...).
Constructed == pc # "construct" /\ error.kind # "version"
\* Both addition loops are over and no removal has been applied.
AdditionsDone == pc = "remove_features" /\ visited = 0
\* The requirements of enabled features for which is_satisfied(E) holds.
SatisfiedRequirements ==
    {r \in UNION {{FeatureOf(n).requirements[i] : i \in 1..Len(FeatureOf(n).requirements)}
                  : n \in EnabledNames}
        : LET satisfied == IsSatisfied(r.dependency, EnabledNames)
          IN  satisfied.ok /\ satisfied.val}

\* C1: after the two addition phases, before any removal, the working set
\* holds exactly the commands of the requirements r of enabled features for
\* which r.is_satisfied(E) holds, E the names of all enabled features.
C1_ExactAdditions ==
    AdditionsDone =>
        \A l \in Levels :
            command_set[l] = {c \in UNION {r.commands : r \in SatisfiedRequirements} : c.level = l}

\* Additions ended with a requirement of an enabled feature skipped, a
\* feature with commands disabled, and commands in the working set.
C1_Witness ==
    /\ AdditionsDone
    /\ Stored(command_set) # {}
    /\ \E n \in (FeatureNames \cup ExtensionNames) \ EnabledNames :
            FeatureOf(n).requirements[1].commands # {}
    /\ \E n \in EnabledNames : \E i \in 1..Len(FeatureOf(n).requirements) :
            /\ FeatureOf(n).requirements[i].commands # {}
            /\ ~IsSatisfied(FeatureOf(n).requirements[i].dependency, EnabledNames).val

\* C2: when resolution succeeds, no command named in the removal set of an
\* enabled feature (core version or extension) is in the final command set.
C2_RemovalsOfEveryEnabledFeature ==
    pc = "done" =>
        \A n \in EnabledNames : FeatureOf(n).removals \cap StoredNames(output.commands) = {}

\* C3: the phases run in the order additions from core versions, additions
\* from extensions, removals; once the removal phase is entered nothing is
\* added to the working set, so a command in the removal set of an enabled
\* core version is absent from the final set even when a satisfied
\* requirement of another enabled feature lists it.
RemovalPhases == {"remove_features", "remove_extensions", "render", "done"}
C3_NothingAddedAfterRemovals ==
    (pc \in RemovalPhases) =>
        /\ pc' \in RemovalPhases
        /\ \A l \in Levels : command_set'[l] \subseteq command_set[l]
C3_CoreRemovalsWin ==
    pc = "done" =>
        \A n \in EnabledFeatures : FeatureOf(n).removals \cap StoredNames(output.commands) = {}
C3_RemovalsFollowAdditions ==
    [][C3_NothingAddedAfterRemovals]_vars /\ []C3_CoreRemovalsWin

\* Run succeeded with an enabled core version that removes a command which
\* a satisfied requirement of an enabled extension had added.
C3_Witness ==
    /\ pc = "done"
    /\ \E n \in EnabledFeatures, m \in EnabledExtensions :
          \E c \in UNION {r.commands : r \in SatisfiedRequirements} :
              /\ c.name \in FeatureOf(n).removals
              /\ \E i \in 1..Len(FeatureOf(m).requirements) :
                    /\ c \in FeatureOf(m).requirements[i].commands
                    /\ FeatureOf(m).requirements[i] \in SatisfiedRequirements

C6_ExtensionEnabledIff ==
    Constructed =>
        \A n \in ExtensionNames :
            enabled[n] <=>
                /\ sel.api \in doc.extensions[n].supported_apis
                /\ \/ (~sel.extensions.none /\ n \in sel.extensions.names)
                   \/ (~sel.extensions.none /\ "all" \in sel.extensions.names)
                /\ \/ doc.extensions[n].deprecatedby \in {NoneValue, <<>>}
                   \/ sel.enable_deprecated = "True"

\* A deprecated extension that was named explicitly stayed disabled because
\* deprecated features were not allowed.
C6_Witness ==
    /\ Constructed
    /\ doc.extensions["E1"].deprecatedby = <<"E2">>
    /\ ~sel.extensions.none /\ "E1" \in sel.extensions.names
    /\ sel.api \in doc.extensions["E1"].supported_apis
    /\ sel.enable_deprecated = "False"
    /\ ~enabled["E1"]

\* The (major, minor) pairs of the version texts used in documents and
\* selections.
Pair(text) ==
    CASE text = <<"1", ".", "0">> -> <<1, 0>>
      [] text = <<"1", ".", "1">> -> <<1, 1>>
      [] text = <<"2", ".", "0">> -> <<2, 0>>
NotAbove(a, b) == a[1] < b[1] \/ (a[1] = b[1] /\ a[2] <= b[2])

\* C7: after construction a core version is enabled iff the requested API
\* is in its supported-API set and the requested version is "latest" or the
\* feature's version is not above it; with an enabled version every lower
\* version supporting the API is enabled; the extension set and the
\* deprecated policy play no part.
C7_CoreEnabledIff ==
    Constructed =>
        /\ \A n \in FeatureNames :
              enabled[n] <=>
                  /\ sel.api \in doc.features[n].supported_apis
                  /\ \/ sel.api_version = Latest
                     \/ NotAbove(Pair(doc.features[n].number), Pair(sel.api_version))
        /\ \A n, m \in FeatureNames :
              ( /\ enabled[n]
                /\ NotAbove(Pair(doc.features[m].number), Pair(doc.features[n].number))
                /\ sel.api \in doc.features[m].supported_apis ) => enabled[m]

\* Version 1.1 was requested and a core version 2.0 that supports the API
\* stayed disabled while version 1.0 was enabled.
C7_Witness ==
    /\ Constructed
    /\ sel.api_version = <<"1", ".", "1">>
    /\ doc.features["V11"].number = <<"2", ".", "0">>
    /\ sel.api \in doc.features["V11"].supported_apis
    /\ enabled["V10"] /\ ~enabled["V11"]

(***************************************************************************)
(* VulkanCommand construction (VulkanCommand.py).  A <command> node is     *)
(* either a declaration (proto/name and parameters) or an alias (the       *)
(* attributes name and alias, nothing else).                               *)
(***************************************************************************)
\* Python None where a name or a type is expected.
NoText == "<None>"
\* The tuple global_commands of VulkanCommand.__init__.
GlobalCommands == {"vkEnumerateInstanceVersion", "vkEnumerateInstanceExtensionProperties",
                   "vkEnumerateInstanceLayerProperties", "vkCreateInstance", "vkGetInstanceProcAddr"}
InstanceOwners == {"VkInstance", "VkPhysicalDevice"}
DeviceOwners == {"VkDevice", "VkCommandBuffer", "VkQueue"}

\* Names and first-parameter types that occur in the trees.
DeclaredNames == {"vkCreateInstance", "vkGetInstanceProcAddr", "vkDestroySurfaceKHR",
                  "vkResetQueryPool", "glEvilCommand"}
AliasNames == {"vkResetQueryPoolEXT"}
AliasTargets == (DeclaredNames \ {"glEvilCommand"}) \cup {"vkMissingCommand"} \cup AliasNames
OwnerTypes == InstanceOwners \cup DeviceOwners \cup {"VkInstanceCreateInfo", NoText}
\* name.startswith("vk")
StartsWithVk(name) == name \in (DeclaredNames \ {"glEvilCommand"}) \cup AliasNames \cup GlobalCommands

Declaration(name, owner) == [alias |-> "", name |-> NoText, proto |-> name, param |-> owner]
Alias(name, aliased) == [alias |-> aliased, name |-> name, proto |-> NoText, param |-> NoText]
NoNode == [alias |-> "", name |-> NoText, proto |-> NoText, param |-> NoText]
CommandNodes ==
    {Declaration(n, t) : n \in DeclaredNames \cup {NoText}, t \in OwnerTypes}
    \cup {Alias(n, a) : n \in AliasNames, a \in AliasTargets}
CommandTrees == {<<n>> : n \in CommandNodes} \cup {<<n1, n2>> : n1 \in CommandNodes, n2 \in CommandNodes}

\* tree.find("commands/command/proto/name[.='<aliased>']/../.."): the first
\* command, in document order, whose proto/name is the aliased name.
FindDeclaration(treeNodes, aliased) ==
    IF \E i \in 1..Len(treeNodes) : treeNodes[i].proto = aliased
    THEN treeNodes[CHOOSE i \in 1..Len(treeNodes) :
                      /\ treeNodes[i].proto = aliased
                      /\ \A j \in 1..(i - 1) : treeNodes[j].proto # aliased]
    ELSE NoNode

CommandOk(name, level) == [ok |-> TRUE, name |-> name, level |-> level, error |-> ""]
CommandError(raised) == [ok |-> FALSE, name |-> NoText, level |-> -1, error |-> raised]

\* VulkanCommand.__init__ with the first parameter inspected before the
\* list of global names.
VulkanCommandOwnerFirst(treeNodes, node) ==
    LET aliased == node.alias
        name == IF aliased # "" THEN node.name ELSE node.proto
        target == IF aliased # "" THEN FindDeclaration(treeNodes, aliased) ELSE node
    IN  IF name = NoText \/ target = NoNode
        THEN CommandError("corrupt")
        ELSE IF ~StartsWithVk(name)
        THEN CommandError("namespace")
        ELSE IF target.param \in InstanceOwners
        THEN CommandOk(name, LevelInstance)
        ELSE IF target.param \in DeviceOwners
        THEN CommandOk(name, LevelDevice)
        ELSE IF name \in GlobalCommands
        THEN CommandOk(name, LevelGlobal)
        ELSE CommandError("level")

\* VulkanCommand.__init__(tree, node)
VulkanCommandInit(treeNodes, node) ==
    LET aliased == node.alias
        name == IF aliased # "" THEN node.name ELSE node.proto
        target == IF aliased # "" THEN FindDeclaration(treeNodes, aliased) ELSE node
    IN  IF name = NoText \/ target = NoNode
        THEN CommandError("corrupt")
        ELSE IF ~StartsWithVk(name)
        THEN CommandError("namespace")
        ELSE IF name \in GlobalCommands
        THEN CommandOk(name, LevelGlobal)
        ELSE LET owner == target.param
             IN  IF owner \in InstanceOwners
                 THEN CommandOk(name, LevelInstance)
                 ELSE IF owner \in DeviceOwners
                 THEN CommandOk(name, LevelDevice)
                 ELSE CommandError("level")

(***************************************************************************)
(* The commands of a tree are constructed, then added to and removed from  *)
(* a VulkanCommandSet in any order.                                        *)
(***************************************************************************)
NoOp == [kind |-> "none", command |-> NoCommand, name |-> NoText]
\* The engine and run variables while commands or versions are exercised.
EngineIdle ==
    /\ tree = <<>> /\ src = "idle" /\ expr = <<>> /\ active = {}
    /\ satResult = NotRun /\ guardResult = NotRun /\ featureGuard = NotRun

InitCommands ==
    /\ nodes \in CommandTrees
    /\ constructed = <<>>
    /\ cset = EmptyCommandSet
    /\ op = NoOp
    /\ catalog = <<>>
    /\ EngineIdle
    /\ RunIdle
    /\ VersionIdle
    /\ SearchIdle
    /\ TokenizerIdle

\* The commands that were constructed.
Built == {Command(constructed[i].name, constructed[i].level) :
            i \in {j \in 1..Len(constructed) : constructed[j].ok}}
\* Names to look up: those of the tree and one no command has.
LookupNames == DeclaredNames \cup AliasNames \cup {"vkNotAVulkanCommand"}

\* VulkanCommand(tree, node) for every node of the tree.
ParseCommands ==
    /\ constructed = <<>>
    /\ constructed' = [i \in 1..Len(nodes) |-> VulkanCommandInit(nodes, nodes[i])]
    /\ UNCHANGED <<nodes, cset, op, catalog>>
    /\ UNCHANGED engineVars
    /\ UNCHANGED runVars
    /\ UNCHANGED versionVars
    /\ UNCHANGED searchVars
    /\ UNCHANGED tokenizerVars

\* cset.add(command)
AddCommand ==
    /\ constructed # <<>>
    /\ \E c \in Built :
          /\ cset' = Add(cset, c)
          /\ op' = [kind |-> "add", command |-> c, name |-> c.name]
    /\ UNCHANGED <<nodes, constructed, catalog>>
    /\ UNCHANGED engineVars
    /\ UNCHANGED runVars
    /\ UNCHANGED versionVars
    /\ UNCHANGED searchVars
    /\ UNCHANGED tokenizerVars

\* cset.remove(command)
RemoveCommand ==
    /\ constructed # <<>>
    /\ \E c \in Built :
          /\ cset' = Remove(cset, c)
          /\ op' = [kind |-> "remove", command |-> c, name |-> c.name]
    /\ UNCHANGED <<nodes, constructed, catalog>>
    /\ UNCHANGED engineVars
    /\ UNCHANGED runVars
    /\ UNCHANGED versionVars
    /\ UNCHANGED searchVars
    /\ UNCHANGED tokenizerVars

\* cset.remove(cset.find(name)), as run does for every removal
RemoveNamed ==
    /\ constructed # <<>>
    /\ \E n \in LookupNames :
          /\ cset' = Remove(cset, Find(cset, n))
          /\ op' = [kind |-> "remove_named", command |-> Find(cset, n), name |-> n]
    /\ UNCHANGED <<nodes, constructed, catalog>>
    /\ UNCHANGED engineVars
    /\ UNCHANGED runVars
    /\ UNCHANGED versionVars
    /\ UNCHANGED searchVars
    /\ UNCHANGED tokenizerVars

\* The outcome of the loop that fills the dictionary of commands: the
\* dictionary, or the exception that left VulkanSpecification unbuilt.
CatalogOk(commands) == [ok |-> TRUE, commands |-> commands, failed |-> 0, error |-> ""]
CatalogError(i, raised) == [ok |-> FALSE, commands |-> {}, failed |-> i, error |-> raised]
\* The loop, were it to skip the entries whose construction raises.
RECURSIVE ParsedCommandsSkipping(_, _, _)
ParsedCommandsSkipping(treeNodes, i, commands) ==
    IF i > Len(treeNodes)
    THEN CatalogOk(commands)
    ELSE LET parsed == VulkanCommandInit(treeNodes, treeNodes[i])
         IN  IF ~parsed.ok
             THEN ParsedCommandsSkipping(treeNodes, i + 1, commands)
             ELSE ParsedCommandsSkipping(treeNodes, i + 1,
                      {c \in commands : c.name # parsed.name}
                          \cup {Command(parsed.name, parsed.level)})
\* "for command in tree.findall(...): parsed = VulkanCommand(tree, command);
\* self.__commands[parsed.name()] = parsed", from entry i on.
RECURSIVE ParsedCommands(_, _, _)
ParsedCommands(treeNodes, i, commands) ==
    IF i > Len(treeNodes)
    THEN CatalogOk(commands)
    ELSE LET parsed == VulkanCommandInit(treeNodes, treeNodes[i])
         IN  IF ~parsed.ok
             THEN CatalogError(i, parsed.error)
             ELSE ParsedCommands(treeNodes, i + 1,
                      {c \in commands : c.name # parsed.name}
                          \cup {Command(parsed.name, parsed.level)})

\* VulkanSpecification.__init__: the dictionary of commands is built,
\* before any command of the tree is put into a VulkanCommandSet.
BuildCommands ==
    /\ catalog = <<>>
    /\ constructed = <<>>
    /\ catalog' = ParsedCommands(nodes, 1, {})
    /\ UNCHANGED <<nodes, constructed, cset, op>>
    /\ UNCHANGED engineVars
    /\ UNCHANGED runVars
    /\ UNCHANGED versionVars
    /\ UNCHANGED searchVars
    /\ UNCHANGED tokenizerVars

NextCommands == ParseCommands \/ AddCommand \/ RemoveCommand \/ RemoveNamed \/ BuildCommands

SpecCommands == InitCommands /\ [][NextCommands]_vars

(***************************************************************************)
(* Claims about commands and command sets, checked under SpecCommands.     *)
(***************************************************************************)
Parsed == constructed # <<>>
\* The declarations whose name passes the checks that precede the level.
Named(n) == n.alias = "" /\ n.proto # NoText /\ StartsWithVk(n.proto)

\* C14: a declared command is Global if its name is one of the five
\* bootstrap names, whatever its first parameter; otherwise Instance for
\* VkInstance or VkPhysicalDevice, Device for VkDevice, VkCommandBuffer or
\* VkQueue, and its construction fails for an absent or any other first
\* parameter; a constructed command has one level.
C14_LevelDecision ==
    Parsed =>
        \A i \in 1..Len(nodes) :
            LET n == nodes[i]
                r == constructed[i]
                bootstrap == n.proto \in {"vkEnumerateInstanceVersion",
                                          "vkEnumerateInstanceExtensionProperties",
                                          "vkEnumerateInstanceLayerProperties",
                                          "vkCreateInstance", "vkGetInstanceProcAddr"}
            IN  /\ r.ok => r.level \in {LevelGlobal, LevelInstance, LevelDevice}
                /\ Named(n) =>
                     IF bootstrap
                     THEN r.ok /\ r.name = n.proto /\ r.level = LevelGlobal
                     ELSE IF n.param \in {"VkInstance", "VkPhysicalDevice"}
                     THEN r.ok /\ r.name = n.proto /\ r.level = LevelInstance
                     ELSE IF n.param \in {"VkDevice", "VkCommandBuffer", "VkQueue"}
                     THEN r.ok /\ r.name = n.proto /\ r.level = LevelDevice
                     ELSE ~r.ok /\ r.error = "level"

\* A bootstrap command whose first parameter is a VkInstance was
\* constructed and is Global; a command without a first parameter failed.
C14_Witness ==
    /\ Parsed
    /\ nodes = <<Declaration("vkGetInstanceProcAddr", "VkInstance"),
                 Declaration("vkDestroySurfaceKHR", NoText)>>
    /\ constructed[1].ok /\ constructed[1].level = LevelGlobal
    /\ ~constructed[2].ok

\* C15: an alias of a command declared in the tree, before or after it, is
\* constructed with its own name and the level of that command, whether
\* that level is Global, Instance or Device.
C15_AliasHasLevelOfTarget ==
    Parsed =>
        \A i \in 1..Len(nodes) : \A j \in 1..Len(nodes) :
            ( /\ nodes[i].alias # ""
              /\ nodes[j].proto = nodes[i].alias
              /\ constructed[j].ok ) =>
                /\ constructed[i].ok
                /\ constructed[i].name = nodes[i].name
                /\ constructed[i].level = constructed[j].level

\* The stored commands.
StoredIn(data) == data[LevelGlobal] \cup data[LevelInstance] \cup data[LevelDevice]

\* C16: whatever was added and removed, every stored command is in the tier
\* of its level only, the tiers are pairwise disjoint, the length is the
\* number of stored commands, and adding a stored command changes nothing.
C16_TiersPartition ==
    /\ [](pc = "idle" /\ cset # <<>> =>
            /\ \A l \in Levels : \A c \in cset[l] : c.level = l
            /\ \A l1 \in Levels : \A l2 \in Levels : l1 # l2 => cset[l1] \cap cset[l2] = {}
            /\ Length(cset) = Cardinality(StoredIn(cset)))
    /\ [][(pc = "idle" /\ cset # <<>> /\ op'.kind = "add" /\ Contains(cset, op'.command))
            => cset' = cset]_vars

\* Commands of two levels are stored and the last one was added.
C16_Witness ==
    /\ pc = "idle" /\ cset # <<>>
    /\ op.kind = "add"
    /\ cset[LevelGlobal] # {} /\ cset[LevelDevice] # {}
    /\ Length(cset) = 2

\* C17: removing a command that is not stored changes nothing; removing a
\* stored command deletes it and nothing else; find(name) returns the
\* stored command of that name or none, and remove(find(name)) removes
\* that command, or nothing when there is none.
C17_RemoveFrame ==
    [][ (pc = "idle" /\ cset # <<>>) =>
          /\ op'.kind = "remove" =>
                IF Contains(cset, op'.command)
                THEN /\ \A l \in Levels : cset'[l] = cset[l] \ {op'.command}
                     /\ Length(cset') = Length(cset) - 1
                ELSE cset' = cset
          /\ op'.kind = "remove_named" =>
                IF \E c \in StoredIn(cset) : c.name = op'.name
                THEN /\ op'.command \in StoredIn(cset)
                     /\ op'.command.name = op'.name
                     /\ \A l \in Levels : cset'[l] = cset[l] \ {op'.command}
                     /\ Length(cset') = Length(cset) - 1
                ELSE /\ op'.command = NoCommand
                     /\ cset' = cset ]_vars

\* A command that is not stored was removed from a set that stores another.
C17_Witness ==
    /\ pc = "idle" /\ cset # <<>>
    /\ op.kind = "remove"
    /\ ~Contains(cset, op.command)
    /\ Length(cset) > 0

(***************************************************************************)
(* VulkanVersion on its own: texts are parsed, and three parsed versions   *)
(* are compared pairwise.                                                  *)
(***************************************************************************)
\* Raw version texts have at most MaxVersionLen characters.
MaxVersionLen == 4
\* The versions that are compared have numbers up to MaxVersionNumber.
MaxVersionNumber == 2

VersionAlphabet == {"0", "1", "2", " ", ".", "x"}
RawVersionTexts == UNION {[1..len -> VersionAlphabet] : len \in 0..MaxVersionLen}
\* "X.Y" for one-digit numbers.
VersionText(major, minor) == <<Digits[major + 1], ".", Digits[minor + 1]>>
VersionTriples ==
    {<<VersionText(a[1], a[2]), VersionText(b[1], b[2]), VersionText(c[1], c[2])>> :
        a \in (0..MaxVersionNumber) \X (0..MaxVersionNumber),
        b \in (0..MaxVersionNumber) \X (0..MaxVersionNumber),
        c \in (0..MaxVersionNumber) \X (0..MaxVersionNumber)}

InitVersion ==
    /\ vtexts \in {<<t>> : t \in RawVersionTexts \cup {NoneValue}} \cup VersionTriples
    /\ versions = <<>>
    /\ compared = <<>>
    /\ EngineIdle
    /\ RunIdle
    /\ CommandsIdle
    /\ SearchIdle
    /\ TokenizerIdle

\* VulkanVersion(text) for every text
ParseVersions ==
    /\ versions = <<>>
    /\ versions' = [i \in 1..Len(vtexts) |-> VulkanVersion(vtexts[i])]
    /\ UNCHANGED <<vtexts, compared>>
    /\ UNCHANGED engineVars
    /\ UNCHANGED runVars
    /\ UNCHANGED commandVars
    /\ UNCHANGED searchVars
    /\ UNCHANGED tokenizerVars

\* a.compare(b), a == b, a < b, a <= b, a > b, a >= b for every pair
CompareVersions ==
    /\ versions # <<>>
    /\ compared = <<>>
    /\ Len(versions) > 1
    /\ \A i \in 1..Len(versions) : versions[i].ok
    /\ compared' = [p \in (1..Len(versions)) \X (1..Len(versions)) |->
                      LET a == versions[p[1]]
                          b == versions[p[2]]
                      IN  [compare |-> Compare(a, b),
                           eq |-> VersionEq(a, b),
                           lt |-> VersionLt(a, b),
                           le |-> VersionLe(a, b),
                           gt |-> VersionGt(a, b),
                           ge |-> VersionGe(a, b)]]
    /\ UNCHANGED <<vtexts, versions>>
    /\ UNCHANGED engineVars
    /\ UNCHANGED runVars
    /\ UNCHANGED commandVars
    /\ UNCHANGED searchVars
    /\ UNCHANGED tokenizerVars

NextVersion == ParseVersions \/ CompareVersions

SpecVersion == InitVersion /\ [][NextVersion]_vars

(***************************************************************************)
(* Claims about versions, checked under SpecVersion.                       *)
(***************************************************************************)
VersionsParsed == versions # <<>>
VersionsCompared == compared # <<>>

\* The characters a+1..b of a text (0-based a, exclusive b) are digits.
AllDigits(text, a, b) == \A m \in (a + 1)..b : text[m] \in {"0", "1", "2", "3", "4", "5", "6", "7", "8", "9"}
\* The text begins with digits, a dot and digits: major is text[0:a],
\* minor is text[a+1:b], both as long as they can be.
LeadingVersion(text, a, b) ==
    /\ 0 < a /\ a + 1 < b /\ b <= Len(text)
    /\ AllDigits(text, 0, a)
    /\ text[a + 1] = "."
    /\ AllDigits(text, a + 1, b)
    /\ b < Len(text) => ~AllDigits(text, b, b + 1)
BeginsWithVersion(text) ==
    \E a \in 1..Len(text) : \E b \in 1..Len(text) : LeadingVersion(text, a, b)

\* C18: VulkanVersion(text) raises for None, for the empty text and for
\* every text that does not begin with digits, a dot and digits (so for
\* every text whose first character is not a digit); for a text that does,
\* it takes major and minor from that leading match and ignores the rest.
C18_ParseAcceptsLeadingVersionOnly ==
    (VersionsParsed /\ Len(vtexts) = 1) =>
        LET text == vtexts[1]
            r == versions[1]
        IN  /\ text = NoneValue => ~r.ok
            /\ text = <<>> => ~r.ok
            /\ (text # NoneValue /\ ~BeginsWithVersion(text)) => ~r.ok
            /\ (text # NoneValue /\ BeginsWithVersion(text)) =>
                  /\ r.ok
                  /\ \A a \in 1..Len(text) : \A b \in 1..Len(text) :
                        LeadingVersion(text, a, b) =>
                            /\ r.major = ToInt(SubSeq(text, 1, a))
                            /\ r.minor = ToInt(SubSeq(text, a + 2, b))

\* The position of a in the lexicographic order on (major, minor).
Lower(a, b) == a.major < b.major \/ (a.major = b.major /\ a.minor < b.minor)
Same(a, b) == a.major = b.major /\ a.minor = b.minor

\* C19 as stated: compare returns -1 when the left version is lower, 0
\* when the two are equal and 1 when it is higher, and nothing else.
C19_CompareThreeValues ==
    VersionsCompared =>
        \A p \in DOMAIN compared :
            LET a == versions[p[1]]
                b == versions[p[2]]
            IN  /\ compared[p].compare \in {-1, 0, 1}
                /\ Lower(a, b) => compared[p].compare = -1
                /\ Same(a, b) => compared[p].compare = 0
                /\ Lower(b, a) => compared[p].compare = 1

\* C19 amended: compare returns a negative integer when the left version
\* is lower, 0 when the two are equal and a positive integer when it is
\* higher; the integer is the difference of the majors, or of the minors
\* when the majors are equal.
C19_CompareSign ==
    VersionsCompared =>
        \A p \in DOMAIN compared :
            LET a == versions[p[1]]
                b == versions[p[2]]
            IN  /\ Lower(a, b) <=> compared[p].compare < 0
                /\ Same(a, b) <=> compared[p].compare = 0
                /\ Lower(b, a) <=> compared[p].compare > 0
                /\ a.major # b.major => compared[p].compare = a.major - b.major
                /\ a.major = b.major => compared[p].compare = a.minor - b.minor

\* Versions two majors apart were compared, in both directions.
C19_Witness ==
    /\ VersionsCompared
    /\ vtexts[1] = <<"2", ".", "0">> /\ vtexts[2] = <<"0", ".", "1">>
    /\ compared[<<1, 2>>].compare = 2
    /\ compared[<<2, 1>>].compare = -2

\* C20: compare and ==, <, <=, >, >= agree with the lexicographic order on
\* (major, minor); exactly one of a < b, a == b, a > b holds; the order is
\* transitive; compare(a, b) and compare(b, a) have opposite signs.
C20_TotalOrder ==
    VersionsCompared =>
        /\ \A p \in DOMAIN compared :
              LET a == versions[p[1]]
                  b == versions[p[2]]
                  c == compared[p]
                  d == compared[<<p[2], p[1]>>]
              IN  /\ c.lt <=> Lower(a, b)
                  /\ c.eq <=> Same(a, b)
                  /\ c.gt <=> Lower(b, a)
                  /\ c.le <=> (Lower(a, b) \/ Same(a, b))
                  /\ c.ge <=> (Lower(b, a) \/ Same(a, b))
                  /\ (c.compare < 0) = c.lt /\ (c.compare = 0) = c.eq /\ (c.compare > 0) = c.gt
                  /\ Cardinality({k \in {"lt", "eq", "gt"} : c[k]}) = 1
                  /\ (c.compare < 0) = (d.compare > 0)
                  /\ (c.compare = 0) = (d.compare = 0)
        /\ \A i \in 1..Len(versions) : \A j \in 1..Len(versions) : \A k \in 1..Len(versions) :
              /\ (compared[<<i, j>>].lt /\ compared[<<j, k>>].lt) => compared[<<i, k>>].lt
              /\ (compared[<<i, j>>].le /\ compared[<<j, k>>].le) => compared[<<i, k>>].le

\* The major decided against the minor: 1.2 < 2.0 < 2.1 were compared.
C20_Witness ==
    /\ VersionsCompared
    /\ vtexts = <<VersionText(1, 2), VersionText(2, 0), VersionText(2, 1)>>
    /\ compared[<<1, 2>>].lt /\ compared[<<2, 3>>].lt /\ compared[<<1, 3>>].lt

(***************************************************************************)
(* Malformed dependency expressions in the document                        *)
(***************************************************************************)
\* The document holds a feature or a requirement whose dependency has an
\* unmatched parenthesis.
MalformedDocument ==
    \E n \in FeatureNames \cup ExtensionNames :
        \/ UnmatchedIndices(FeatureOf(n).dependency) # {}
        \/ \E i \in 1..Len(FeatureOf(n).requirements) :
                UnmatchedIndices(FeatureOf(n).requirements[i].dependency) # {}

\* C21: a document with an unmatched parenthesis in the dependency of any
\* feature or requirement, enabled or not, fails while the specification is
\* constructed: run never reaches the resolution loops on such a document,
\* and nothing was added to the working set when it fails.
C21_MalformedDependencyFailsConstruction ==
    MalformedDocument =>
        /\ pc \in {"construct", "failed"}
        /\ pc = "failed" => (error.at = "" /\ command_set = EmptyCommandSet)

(***************************************************************************)
(* Empty tokens                                                            *)
(***************************************************************************)
ParenFree(text) == \A i \in 1..Len(text) : text[i] \notin {"(", ")"}
\* The pieces of a text between the occurrences of a separator, empty
\* pieces included: <<a, b>> stands for the symbols a+1 .. b-1.
Cuts(text, sep) == {0, Len(text) + 1} \cup {i \in 1..Len(text) : text[i] = sep}
Pieces(text, sep) ==
    {SubSeq(text, c[1] + 1, c[2] - 1) :
        c \in {d \in Cuts(text, sep) \X Cuts(text, sep) :
                  d[1] < d[2] /\ \A k \in Cuts(text, sep) : ~(d[1] < k /\ k < d[2])}}
HasEmptyToken(text) ==
    \E p \in Pieces(text, ",") : \E q \in Pieces(p, "+") : q = <<>>
\* An empty operand is a name that is never active: a branch is true when
\* all its operands are active names, the expression when a branch is.
EmptyTokenMeaning(text, X) ==
    \E p \in Pieces(text, ",") : \A q \in Pieces(p, "+") : Len(q) = 1 /\ q[1] \in X

\* C22: an expression without parentheses that has an empty token (leading,
\* doubled or trailing "," or "+") is evaluated, not rejected, and the
\* empty token counts as a name that never matches: "A,,B" and "A," are
\* satisfied exactly when a non-empty branch is, and ",", "A++B" and "A+"
\* are satisfied by no set of names.
C22_EmptyTokenNeverMatches ==
    (src = "raw" /\ SatRan /\ expr # <<>> /\ ParenFree(expr) /\ HasEmptyToken(expr)) =>
        /\ satResult.ok
        /\ satResult.val = EmptyTokenMeaning(expr, active)

(***************************************************************************)
(* A parenthesized single name                                             *)
(***************************************************************************)
\* The expression is one name, or one name in one pair of parentheses.
SingleName(e) == Len(e) = 1 /\ Len(e[1]) = 1 /\ e[1][1].k = "name"
ParenthesizedName(e) ==
    Len(e) = 1 /\ Len(e[1]) = 1 /\ e[1][1].k = "group" /\ SingleName(e[1][1].e)
\* "((N))+M ...": an AND whose operands are names or groups that hold
\* "(N)", so that _check_dependencies("(N)") is reached by recursion.
ReachesParenthesizedName(e) ==
    /\ Len(e) = 1 /\ Len(e[1]) > 1
    /\ \A j \in 1..Len(e[1]) :
          e[1][j].k = "name" \/ (e[1][j].k = "group" /\ ParenthesizedName(e[1][j].e))
    /\ \E j \in 1..Len(e[1]) : e[1][j].k = "group"

\* C23: "(N)" evaluates as "N": it is satisfied exactly when N is active,
\* as the whole expression and when the recursion reaches it.
C23_ParenthesizedNameIsName ==
    (src = "grammar" /\ SatRan /\ (ParenthesizedName(tree) \/ ReachesParenthesizedName(tree))) =>
        /\ satResult.ok
        /\ satResult.val = Meaning(tree, active)

(***************************************************************************)
(* Warnings for skipped requirements                                       *)
(***************************************************************************)
\* The requirements of enabled features that list a command and that the
\* addition loops skipped: is_satisfied(enabled) returned False.
SkippedRequirements ==
    {w \in (FeatureNames \cup ExtensionNames) \X (1..2) :
        /\ w[1] \in EnabledNames
        /\ w[2] <= Len(FeatureOf(w[1]).requirements)
        /\ LET requirement == FeatureOf(w[1]).requirements[w[2]]
           IN  /\ Cardinality(requirement.commands) > 0
               /\ IsSatisfied(requirement.dependency, EnabledNames).ok
               /\ ~IsSatisfied(requirement.dependency, EnabledNames).val}

\* C24: when warnings are not silenced and both addition loops have ended,
\* every skipped requirement that lists a command, of an enabled core
\* version or extension alike, has a warning that names its feature and
\* its unmet dependency, and resolution has gone on.
C24_SkippedRequirementWarns ==
    (~sel.quiet /\ pc \in {"remove_features", "remove_extensions", "render", "done"}) =>
        \A w \in SkippedRequirements :
            SkippedWarning(w[1], FeatureOf(w[1]).requirements[w[2]].dependency) \in warnings

(***************************************************************************)
(* The enabled flag and the features during resolution                     *)
(***************************************************************************)
\* C25: every feature is disabled until the specification is constructed;
\* construction sets the flags and nothing else of a feature; no step of
\* the addition loops, the removal loops or the rendering changes the
\* enabled flag, the requirements, the removals or the dependency of any
\* feature.
C25_FeaturesFrozenInResolution ==
    /\ [](pc = "construct" => \A n \in FeatureNames \cup ExtensionNames : ~enabled[n])
    /\ [][/\ doc' = doc
          /\ pc # "construct" => enabled' = enabled]_vars

\* A run that went through the three phases with an unmet requirement
\* skipped, a removal applied and one extension left disabled.
C25_Witness ==
    /\ pc = "done" /\ output.written
    /\ enabled["V10"] /\ enabled["E1"] /\ ~enabled["E2"]
    /\ doc.extensions["E1"].removals # {}
    /\ SkippedRequirements # {}

(***************************************************************************)
(* The dictionary of commands is built whole or not at all                 *)
(***************************************************************************)
EntryName(node) == IF node.alias # "" THEN node.name ELSE node.proto
\* The first parameter type that decides the level of an entry: its own,
\* or that of the declaration an alias names.
EntryOwner(treeNodes, node) ==
    IF node.alias # "" THEN FindDeclaration(treeNodes, node.alias).param ELSE node.param
\* The entry has no name, a name outside the "vk" namespace, is an alias
\* of a name that no entry declares with a signature, or has no level.
BadEntry(treeNodes, node) ==
    \/ EntryName(node) = NoText
    \/ ~StartsWithVk(EntryName(node))
    \/ node.alias # "" /\ \A j \in 1..Len(treeNodes) : treeNodes[j].proto # node.alias
    \/ /\ EntryName(node) \notin GlobalCommands
       /\ EntryOwner(treeNodes, node) \notin InstanceOwners \cup DeviceOwners
BadEntries(treeNodes) == {i \in 1..Len(treeNodes) : BadEntry(treeNodes, treeNodes[i])}
CatalogBuilt == catalog # <<>>

\* C26: a dictionary of commands that was built holds exactly the names of
\* the entries, each beginning with "vk" and with a level; a tree with a bad
\* entry makes the construction fail at the first such entry, and then no
\* dictionary, not even a partial one, exists.
C26_CatalogWholeOrNothing ==
    CatalogBuilt =>
        /\ BadEntries(nodes) # {} =>
              /\ ~catalog.ok
              /\ catalog.commands = {}
              /\ catalog.failed \in BadEntries(nodes)
              /\ \A i \in BadEntries(nodes) : catalog.failed <= i
        /\ catalog.ok =>
              /\ {c.name : c \in catalog.commands} = {EntryName(nodes[i]) : i \in 1..Len(nodes)}
              /\ \A c \in catalog.commands : StartsWithVk(c.name) /\ c.level \in Levels

\* A good entry followed by an alias of a name that is declared only as an
\* alias: the construction failed at the second entry.
C26_Witness ==
    /\ CatalogBuilt
    /\ Len(nodes) = 2
    /\ BadEntries(nodes) = {2}
    /\ nodes[2].alias \in AliasNames
    /\ ~catalog.ok /\ catalog.failed = 2 /\ catalog.error = "corrupt"

(***************************************************************************)
(* VulkanSpecification: locating vk.xml when no path is given              *)
(***************************************************************************)
\* The directories under which share/vulkan/registry/vk.xml is looked for:
\* the values of the two environment variables, ~/.local, /usr/local, /usr.
Locations == {"VULKAN_SDK", "VULKAN_SDK_PATH", "HOME_LOCAL", "USR_LOCAL", "USR"}
EnvironmentNames == {"VULKAN_SDK", "VULKAN_SDK_PATH"}
\* What a path names: a regular file, a directory, or nothing.
PathKinds == {"file", "directory", "absent"}
NoPath == "<None>"
\* Path(): the current directory.
CurrentDirectory == "."
Hosts ==
    [platform : {"linux", "win32"},
     environ : SUBSET EnvironmentNames,
     files : [Locations -> PathKinds],
     path : {NoPath} \cup PathKinds]

Located(path) == [ok |-> TRUE, path |-> path, error |-> ""]
LocateError(raised) == [ok |-> FALSE, path |-> NoPath, error |-> raised]

\* search_paths, or the KeyError of os.environ["VULKAN_SDK"].
SearchPaths(h) ==
    LET sdk == IF "VULKAN_SDK" \in h.environ THEN <<"VULKAN_SDK">> ELSE <<>>
    IN  IF h.platform = "win32"
        THEN IF "VULKAN_SDK_PATH" \in h.environ
             THEN IF "VULKAN_SDK" \in h.environ
                  THEN [ok |-> TRUE, paths |-> sdk \o <<"VULKAN_SDK">>]
                  ELSE [ok |-> FALSE, paths |-> <<>>]
             ELSE [ok |-> TRUE, paths |-> sdk]
        ELSE [ok |-> TRUE, paths |-> sdk \o <<"HOME_LOCAL", "USR_LOCAL", "USR">>]

\* "for search_path in search_paths": the value of spec_path after the
\* iterations from i on.
RECURSIVE SearchLoop(_, _, _, _)
SearchLoop(h, paths, i, spec_path) ==
    IF i > Len(paths)
    THEN spec_path
    ELSE SearchLoop(h, paths, i + 1,
                    IF h.files[paths[i]] = "file" THEN paths[i] ELSE NoPath)

\* The part of VulkanSpecification.__init__ that settles spec_path.
SpecificationPath(h) ==
    IF h.path # NoPath
    THEN IF h.path = "file" THEN Located("explicit") ELSE LocateError("not a regular file")
    ELSE LET search_paths == SearchPaths(h)
             spec_path == SearchLoop(h, search_paths.paths, 1, CurrentDirectory)
         IN  IF ~search_paths.ok
             THEN LocateError("KeyError")
             ELSE IF spec_path = NoPath
             THEN LocateError("not found")
             ELSE IF spec_path = CurrentDirectory
             THEN LocateError("not a regular file")
             ELSE Located(spec_path)

InitSearch ==
    /\ host \in Hosts
    /\ located = <<>>
    /\ RunIdle
    /\ EngineIdle
    /\ CommandsIdle
    /\ VersionIdle
    /\ TokenizerIdle

\* VulkanSpecification(path, ...) up to "self.__spec_path = spec_path".
Locate ==
    /\ host # <<>>
    /\ located = <<>>
    /\ located' = SpecificationPath(host)
    /\ UNCHANGED host
    /\ UNCHANGED engineVars
    /\ UNCHANGED runVars
    /\ UNCHANGED commandVars
    /\ UNCHANGED versionVars
    /\ UNCHANGED tokenizerVars

NextSearch == Locate
SpecSearch == InitSearch /\ [][NextSearch]_vars

\* The locations the help text lists for the platform, in its order; a
\* location named by an environment variable exists when the variable is set.
DocumentedLocations(h) ==
    LET sdk == IF "VULKAN_SDK" \in h.environ THEN <<"VULKAN_SDK">> ELSE <<>>
        sdk_path == IF "VULKAN_SDK_PATH" \in h.environ THEN <<"VULKAN_SDK_PATH">> ELSE <<>>
    IN  IF h.platform = "win32"
        THEN sdk \o sdk_path
        ELSE sdk \o <<"HOME_LOCAL", "USR_LOCAL", "USR">>
HoldsFile(h) ==
    {i \in 1..Len(DocumentedLocations(h)) : h.files[DocumentedLocations(h)[i]] = "file"}

\* C27: without an explicit path the search succeeds exactly when one of the
\* documented locations holds a regular vk.xml, at whichever position of
\* the list, and the path it settles on is one of those files.
C27_FoundWheneverPresent ==
    (located # <<>> /\ host.path = NoPath) =>
        /\ located.ok <=> HoldsFile(host) # {}
        /\ located.ok =>
              \E i \in HoldsFile(host) : located.path = DocumentedLocations(host)[i]

(***************************************************************************)
(* The outcome of run for a given iteration order of the enabled sets      *)
(***************************************************************************)
LoopOutcome(kind, data) == [kind |-> kind, commands |-> data]
\* An addition loop of run over `names`, from the i-th name on.
RECURSIVE AdditionLoop(_, _, _, _)
AdditionLoop(names, i, data, at_extension) ==
    IF i > Len(names)
    THEN LoopOutcome("done", data)
    ELSE LET feature == FeatureOf(names[i])
             satisfied == IsSatisfied(feature.dependency, EnabledNames)
             added == AddRequirements(feature, 1, EnabledNames, data, {}, at_extension, sel.quiet)
         IN  IF ~satisfied.ok \/ ~satisfied.val \/ ~added.ok
             THEN LoopOutcome("failed", EmptyCommandSet)
             ELSE AdditionLoop(names, i + 1, added.data, at_extension)
\* The first removal loop over `names`, from the i-th name on.
RECURSIVE FeatureRemovalLoop(_, _, _)
FeatureRemovalLoop(names, i, data) ==
    IF i > Len(names)
    THEN data
    ELSE FeatureRemovalLoop(names, i + 1, RemoveAll(data, doc.features[names[i]].removals))
\* The second removal loop: every iteration removes the removals of
\* `extension`, the extension the addition loop visited last.
RECURSIVE ExtensionRemovalLoop(_, _, _, _)
ExtensionRemovalLoop(names, i, data, extension) ==
    IF i > Len(names)
    THEN data
    ELSE ExtensionRemovalLoop(names, i + 1,
                              RemoveAll(data, doc.extensions[extension].removals), extension)
\* run with enabled_features iterated as `features` and enabled_extensions
\* as `extensions`: failure, or the set that is rendered.
RunOutcome(features, extensions) ==
    LET core == AdditionLoop(features, 1, EmptyCommandSet, FALSE)
        all == AdditionLoop(extensions, 1, core.commands, TRUE)
    IN  IF core.kind = "failed" \/ all.kind = "failed"
        THEN LoopOutcome("failed", EmptyCommandSet)
        ELSE LoopOutcome("done",
                 IF extensions = <<>>
                 THEN FeatureRemovalLoop(features, 1, all.commands)
                 ELSE ExtensionRemovalLoop(extensions, 1,
                          FeatureRemovalLoop(features, 1, all.commands),
                          extensions[Len(extensions)]))
\* The outcome of the run of this behaviour.
Observed ==
    IF pc = "done" THEN LoopOutcome("done", output.commands)
                   ELSE LoopOutcome("failed", EmptyCommandSet)

\* C28: the outcome of run (failure, or success with the exact content of
\* each tier) is the same for every order in which the enabled core
\* versions and the enabled extensions can be iterated.
C28_OutcomeIndependentOfOrder ==
    (Constructed /\ pc \in {"done", "failed"}) =>
        \A features \in Orders(EnabledFeatures) : \A extensions \in Orders(EnabledExtensions) :
            RunOutcome(features, extensions) = Observed

(***************************************************************************)
(* Satisfaction is monotone in the set of active names                     *)
(***************************************************************************)
\* The names that can be active for the expression of this behaviour.
NameUniverse == ExprNames \cup active \cup (IF src = "grammar" THEN NamesOf(tree) ELSE {})

\* C29: an expression whose evaluation does not raise and that is satisfied
\* by a set of active names is satisfied by every larger set: enabling more
\* features never turns a satisfied dependency into an unsatisfied one.
C29_SatisfactionMonotone ==
    (SatRan /\ satResult.ok /\ satResult.val) =>
        \A larger \in SUBSET NameUniverse :
            active \subseteq larger =>
                IsSatisfied(expr, larger).ok /\ IsSatisfied(expr, larger).val

\* "(A,B)+C" was satisfied by {A, C}, a set that has a proper superset.
C29_Witness ==
    /\ SatRan /\ satResult.ok /\ satResult.val
    /\ tree = GroupAndName
    /\ active = {"A", "C"}

(***************************************************************************)
(* The engine step by step: every next_token of a Tokenizer and every call *)
(* of _check_dependencies / _to_header_guard, which tokenize and recurse   *)
(* in the same way.                                                        *)
(***************************************************************************)
\* Tokenizer.__init__ and the subclasses: the fields of a new Tokenizer.
NewTokenizer(text, terminator) ==
    [text |-> text, terminator |-> terminator, begin |-> 0, stack |-> <<>>, tokens |-> <<>>]
\* Tokenizer.has_more_characters
HasMoreCharacters(t) == t.begin < Len(t.text)
\* A next_token that resumes at the terminator: begin = end.
NextBeginAtTerminator(scan_end) == scan_end
\* next_token: "self.__begin = self.__end + 1"
NextBegin(scan_end) == scan_end + 1

\* A call that is to be made: its argument and the length of the argument
\* of the call that makes it (-1 for the call of is_satisfied /
\* to_header_guard itself).
PendingCall(text, caller) == [text |-> text, caller |-> caller]
\* The arguments of the recursive calls of the loop over `tokens`.
LoopCalls(tokens, caller) ==
    [i \in 1..Len(tokens) |->
        PendingCall(IF StartsWithParen(tokens[i]) THEN Strip(tokens[i]) ELSE tokens[i], caller)]

\* The texts that are evaluated: every raw text, every expression of the
\* grammar and the named examples.
WalkTexts == RawTexts \cup {Render(t) : t \in GeneratedExprs \cup NamedExprs}

InitTokenizer ==
    /\ tokenizer = NewTokenizer(<<>>, " ")
    /\ \E text \in WalkTexts \ {<<>>} :
          calls = [pending |-> <<PendingCall(text, -1)>>, current |-> PendingCall(<<>>, -1),
                   phase |-> "call", last |-> "none", made |-> 0]
    /\ RunIdle
    /\ EngineIdle
    /\ CommandsIdle
    /\ VersionIdle
    /\ SearchIdle

\* The next call is entered: tokens = _tokenize(CommaTokenizer(token)).
\* When no call is left the evaluation returns.
EnterCall ==
    /\ calls # <<>>
    /\ calls.phase = "call"
    /\ IF calls.pending = <<>>
       THEN /\ calls' = [calls EXCEPT !.phase = "returned", !.last = "return"]
            /\ UNCHANGED tokenizer
       ELSE /\ calls' = [calls EXCEPT !.pending = Tail(calls.pending),
                                      !.current = Head(calls.pending),
                                      !.phase = "comma", !.last = "call",
                                      !.made = calls.made + 1]
            /\ tokenizer' = NewTokenizer(Head(calls.pending).text, ",")
    /\ UNCHANGED engineVars
    /\ UNCHANGED runVars
    /\ UNCHANGED commandVars
    /\ UNCHANGED versionVars
    /\ UNCHANGED searchVars

\* tokens.append(tokenizer.next_token())
NextToken ==
    /\ calls # <<>>
    /\ calls.phase \in {"comma", "plus"}
    /\ HasMoreCharacters(tokenizer)
    /\ LET scan == Consume(tokenizer.text, tokenizer.begin, tokenizer.stack, tokenizer.terminator)
       IN  IF ~scan.ok
           THEN /\ calls' = [calls EXCEPT !.phase = "raised", !.last = "raise"]
                /\ UNCHANGED tokenizer
           ELSE /\ tokenizer' =
                      [tokenizer EXCEPT
                          !.tokens = Append(tokenizer.tokens,
                                            SubSeq(tokenizer.text, tokenizer.begin + 1, scan.end)),
                          !.begin = NextBegin(scan.end),
                          !.stack = scan.stack]
                /\ calls' = [calls EXCEPT !.last = "next_token"]
    /\ UNCHANGED engineVars
    /\ UNCHANGED runVars
    /\ UNCHANGED commandVars
    /\ UNCHANGED versionVars
    /\ UNCHANGED searchVars

\* _tokenize returned: a single token of the ","-split is split at "+", a
\* single token of the "+"-split ends the call, several tokens are handed
\* to the loop, which calls for each of them before any other pending call.
Split ==
    /\ calls # <<>>
    /\ calls.phase \in {"comma", "plus"}
    /\ ~HasMoreCharacters(tokenizer)
    /\ IF Len(tokenizer.tokens) = 1
       THEN IF calls.phase = "comma"
            THEN /\ tokenizer' = NewTokenizer(tokenizer.tokens[1], "+")
                 /\ calls' = [calls EXCEPT !.phase = "plus", !.last = "split"]
            ELSE /\ calls' = [calls EXCEPT !.phase = "call", !.last = "split"]
                 /\ UNCHANGED tokenizer
       ELSE /\ calls' = [calls EXCEPT
                            !.pending = LoopCalls(tokenizer.tokens, Len(calls.current.text))
                                            \o calls.pending,
                            !.phase = "call", !.last = "split"]
            /\ UNCHANGED tokenizer
    /\ UNCHANGED engineVars
    /\ UNCHANGED runVars
    /\ UNCHANGED commandVars
    /\ UNCHANGED versionVars
    /\ UNCHANGED searchVars

NextTokenizer == EnterCall \/ NextToken \/ Split
\* The interpreter runs the evaluation on: it never stops between steps.
SpecTokenizer == InitTokenizer /\ [][NextTokenizer]_vars /\ WF_vars(NextTokenizer)

\* C30: every next_token moves the start position forward by at least one
\* character; every recursive call gets a text strictly shorter than the
\* text of the call that makes it; and the evaluation of every dependency
\* text ends, by returning or with a tokenization error.
C30_EvaluationTerminates ==
    /\ [][calls'.last = "next_token" => tokenizer'.begin >= tokenizer.begin + 1]_vars
    /\ [](\A i \in 1..Len(calls.pending) :
              calls.pending[i].caller >= 0 => Len(calls.pending[i].text) < calls.pending[i].caller)
    /\ [](calls.current.caller >= 0 => Len(calls.current.text) < calls.current.caller)
    /\ <>(calls.phase \in {"returned", "raised"})

\* The documented example was evaluated to the end: calls three levels
\* deep were made and the evaluation returned.
C30_Witness ==
    /\ calls # <<>>
    /\ calls.phase = "returned"
    /\ calls.made >= 8
    /\ tokenizer.text = <<"R">>


=============================================================================
